---------------------------- MODULE Spec2Model ----------------------------
(***************************************************************************)
(* Model of the event pipeline of the FHE analytics demo:                  *)
(*   - the codec of server/fhe.ts (encryptValue, decryptValue,             *)
(*     homomorphicAdd, homomorphicSum),                                    *)
(*   - the browser batching agent of public/fhe-analytics.js               *)
(*     (queueEvent, flush, sendEvent and its timers),                      *)
(*   - the collection endpoint, the recompute step and the SSE broker of   *)
(*     server/routes.ts over the store of server/storage.ts.               *)
(* Each part has its own specification; a specification leaves the         *)
(* variables of the other parts at their initial values.                   *)
(***************************************************************************)
EXTENDS Integers, Sequences, FiniteSets, TLC

VARIABLES
    \* ---- codec harness (server/fhe.ts)
    codecIn,        \* the input values v1..vN
    codecPc,        \* "input" | "encrypted" | "summed" | "added" | "decoded"
    codecBlobs,     \* the blobs encryptValue produced
    codecAgg,       \* the blob homomorphicSum / homomorphicAdd produced
    codecOut,       \* the number decryptValue returned
    \* ---- batching agent (public/fhe-analytics.js)
    eventQueue,     \* this.eventQueue: sequence of event numbers
    batchTimer,     \* this.batchTimer: 0 (null) or a timer handle
    timers,         \* the runtime's pending flush timers: handle -> remaining ticks
    tracked,        \* number of queueEvent calls made so far
    delivery,       \* event number -> state of its sendEvent chain
    batches,        \* history: the drained batches, in flush order
    idle,           \* history: ticks since the last queueEvent (capped)
    lastOp,         \* history: the handler that ran last
    \* ---- server (server/routes.ts, server/storage.ts)
    origins,        \* origins table: set of origin ids
    fheKeys,        \* origin ids that have an active key row
    encryptedEvents,\* encrypted_events table: sequence of rows, in insert order
    sseClients,     \* Map originId -> Set of connections
    reqs,           \* collect request -> its handler's position and locals
    conns,          \* connection -> its state and the frames written to it
    \* ---- read endpoints and administration (server/routes.ts)
    queryPc,        \* "idle" | "done": position of the one read request
    queryRes,       \* the response of the read request
    aggregates,     \* aggregates table: sequence of rows, in insert order
    proofs,         \* the responses of the proof requests, in request order
    roles,          \* roles table: set of rows
    admin,          \* administrative request -> its handler's position and locals
    \* ---- ProofRegistry (contracts/ProofRegistry.sol)
    originOwners,   \* mapping(string => address)
    chainProofs,    \* mapping(string => mapping(uint256 => Proof)), keyed <<originId, day>>
    blockNumber,    \* block.number of the block being mined
    lastCall,       \* history: the last call, its arguments and its outcome
    \* ---- useMetrics live-update effect (client/src/App.tsx)
    hook,           \* the component using the hook: mounted, its originId, its live effect run
    effects,        \* the closures of the effect runs, in run order
    eventSources,   \* every EventSource constructed, in construction order
    timeouts,       \* every timeout set, in setTimeout order
    hookNow         \* the clock, in ms

codecVars  == <<codecIn, codecPc, codecBlobs, codecAgg, codecOut>>
agentVars  == <<eventQueue, batchTimer, timers, tracked, delivery, batches, idle, lastOp>>
serverVars == <<origins, fheKeys, encryptedEvents, sseClients, reqs, conns>>
queryVars  == <<queryPc, queryRes, aggregates, proofs>>
adminVars  == <<roles, admin>>
chainVars  == <<originOwners, chainProofs, blockNumber, lastCall>>
hookVars   == <<hook, effects, eventSources, timeouts, hookNow>>
vars       == <<codecVars, agentVars, serverVars, queryVars, adminVars, chainVars, hookVars>>

-----------------------------------------------------------------------------
(* JavaScript numbers.  A number is finite (an integer here), +Infinity,   *)
(* -Infinity or NaN; JSON has null besides, and a missing field is         *)
(* undefined.  All are records so that any two can be compared.            *)

Fin(n)  == [kind |-> "fin", n |-> n]
PosInf  == [kind |-> "inf", n |-> 1]
NegInf  == [kind |-> "inf", n |-> -1]
NaN     == [kind |-> "nan", n |-> 0]
Null    == [kind |-> "null", n |-> 0]
Undef   == [kind |-> "undef", n |-> 0]

IsFinite(x) == x.kind = "fin"
IsNumber(x) == x.kind \in {"fin", "inf", "nan"}

\* a + b on numbers
JsAdd(a, b) ==
    IF a.kind = "nan" \/ b.kind = "nan" THEN NaN
    ELSE IF a.kind = "inf" /\ b.kind = "inf" THEN (IF a.n = b.n THEN a ELSE NaN)
    ELSE IF a.kind = "inf" THEN a
    ELSE IF b.kind = "inf" THEN b
    ELSE Fin(a.n + b.n)

\* x || d : d when x is falsy (0, NaN, null, undefined)
Falsy(x) == x.kind \in {"nan", "null", "undef"} \/ (x.kind = "fin" /\ x.n = 0)
JsOr(x, d) == IF Falsy(x) THEN d ELSE x

\* the value JSON.parse(JSON.stringify(x)) yields for a number field:
\* a non-finite number is written as null
JsonNumber(x) == IF IsFinite(x) THEN x ELSE Null


-----------------------------------------------------------------------------
(* Codec: server/fhe.ts.  A blob is the JSON text of an object, held here  *)
(* as the object JSON.parse gives back for it; a blob that is not JSON is  *)
(* Malformed.                                                              *)

Malformed == [value |-> Undef, encrypted |-> FALSE, timestamp |-> Undef]

\* Buffer.from(JSON.stringify({value, encrypted: true, timestamp: Date.now()}))
EncryptValue(value, now) ==
    [value |-> JsonNumber(value), encrypted |-> TRUE, timestamp |-> Fin(now)]

\* Buffer.from(JSON.stringify({ value: 0, encrypted: true })) of routes.ts
ZeroCipher == [value |-> Fin(0), encrypted |-> TRUE, timestamp |-> Undef]

\* JSON.parse(cipherBlob.toString()).value || 0, and 0 when the parse throws
DecryptValue(cipherBlob) ==
    IF cipherBlob = Malformed THEN Fin(0) ELSE JsOr(cipherBlob.value, Fin(0))

HomomorphicAdd(cipher1, cipher2, now) ==
    LET val1 == DecryptValue(cipher1)
        val2 == DecryptValue(cipher2)
        sum  == JsAdd(val1, val2)
    IN  [value |-> JsonNumber(sum), encrypted |-> TRUE, timestamp |-> Fin(now)]

\* ciphers.reduce((acc, cipher) => acc + decryptValue(cipher), 0)
RECURSIVE ReduceAdd(_, _, _)
ReduceAdd(ciphers, i, acc) ==
    IF i > Len(ciphers) THEN acc
    ELSE ReduceAdd(ciphers, i + 1, JsAdd(acc, DecryptValue(ciphers[i])))

HomomorphicSumSkipFirst(ciphers, now) ==
    [value |-> JsonNumber(ReduceAdd(ciphers, 2, Fin(0))),
     encrypted |-> TRUE, timestamp |-> Fin(now)]

HomomorphicSum(ciphers, now) ==
    LET total == ReduceAdd(ciphers, 1, Fin(0))
    IN  [value |-> JsonNumber(total), encrypted |-> TRUE, timestamp |-> Fin(now)]

(* The harness: a sequence of numbers is encrypted value by value, the     *)
(* blobs are combined by homomorphicSum (or, two of them, by               *)
(* homomorphicAdd) and the result is decrypted.                            *)

MaxLen == 3
CodecValues == {Fin(-1), Fin(0), Fin(1), Fin(2), PosInf, NegInf, NaN}
Times == {1, 2}       \* what Date.now() may return

RECURSIVE SeqsUpTo(_, _)
SeqsUpTo(S, n) ==
    IF n = 0 THEN {<<>>}
    ELSE LET shorter == SeqsUpTo(S, n - 1)
         IN  shorter \cup {Append(s, x) : s \in {t \in shorter : Len(t) = n - 1}, x \in S}

CodecInit ==
    /\ codecIn \in SeqsUpTo(CodecValues, MaxLen)
    /\ codecPc = "input"
    /\ codecBlobs = <<>>
    /\ codecAgg = ZeroCipher
    /\ codecOut = Fin(0)

CodecEncrypt ==
    /\ codecPc = "input"
    /\ \E now \in Times :
         codecBlobs' = [i \in 1..Len(codecIn) |-> EncryptValue(codecIn[i], now)]
    /\ codecPc' = "encrypted"
    /\ UNCHANGED <<codecIn, codecAgg, codecOut, agentVars, serverVars, queryVars, adminVars, chainVars, hookVars>>

CodecSum ==
    /\ codecPc = "encrypted"
    /\ \E now \in Times : codecAgg' = HomomorphicSum(codecBlobs, now)
    /\ codecPc' = "summed"
    /\ UNCHANGED <<codecIn, codecBlobs, codecOut, agentVars, serverVars, queryVars, adminVars, chainVars, hookVars>>

CodecAdd ==
    /\ codecPc = "encrypted"
    /\ Len(codecBlobs) = 2
    /\ \E now \in Times : codecAgg' = HomomorphicAdd(codecBlobs[1], codecBlobs[2], now)
    /\ codecPc' = "added"
    /\ UNCHANGED <<codecIn, codecBlobs, codecOut, agentVars, serverVars, queryVars, adminVars, chainVars, hookVars>>

CodecDecrypt ==
    /\ codecPc \in {"summed", "added"}
    /\ codecOut' = DecryptValue(codecAgg)
    /\ codecPc' = "decoded"
    /\ UNCHANGED <<codecIn, codecBlobs, codecAgg, agentVars, serverVars, queryVars, adminVars, chainVars, hookVars>>

CodecNext == CodecEncrypt \/ CodecSum \/ CodecAdd \/ CodecDecrypt

-----------------------------------------------------------------------------
(* Batching agent: class FHEAnalytics of public/fhe-analytics.js.          *)
(* Events are numbered 1, 2, ... in the order of their queueEvent calls.   *)
(* Time advances in units of TimeUnit ms; a timer whose remaining time is  *)
(* 0 is due, and time does not advance past a due timer.                   *)

batchSize     == 5
batchTimeout  == 3000
retryAttempts == 3
retryDelay    == 1000
TimeUnit      == retryDelay

MaxEvents == 6      \* queueEvent calls in a run
MaxSent == 2        \* queueEvent calls in a run that follows the responses
MaxFailures == 3    \* failed POST attempts in a run

\* the agent's fields, and the history of drained batches, as one record
Agent == [eventQueue |-> eventQueue, batchTimer |-> batchTimer, timers |-> timers,
          delivery |-> delivery, batches |-> batches]

\* setTimeout(callback, delay) under handle h; clearTimeout(h)
SetTimeout(ts, h, delay) == [x \in DOMAIN ts \cup {h} |-> IF x = h THEN delay ELSE ts[x]]
ClearTimeout(ts, h) == [x \in DOMAIN ts \ {h} |-> ts[x]]

\* sendEvent(event, attempt) up to its await: the POST is on its way
SendEvent(d, event, attempt) ==
    [x \in DOMAIN d \cup {event} |->
        IF x = event THEN [attempt |-> attempt, st |-> "inflight", keepalive |-> TRUE,
                           remaining |-> 0]
        ELSE d[x]]

\* sendEvent after its await when response.ok: the chain ends
SendEventOk(d, event) == [d EXCEPT ![event].st = "success"]

\* a catch block that retries every failed attempt after retryDelay
SendEventCatchAlways(d, event) ==
    [d EXCEPT ![event].st = "waiting", ![event].remaining = retryDelay]

\* a catch block that treats every outstanding POST as failed
SendEventCatchBatch(d, event) ==
    [x \in DOMAIN d |->
        IF d[x].st # "inflight" THEN d[x]
        ELSE IF d[x].attempt < retryAttempts
             THEN [d[x] EXCEPT !.st = "waiting", !.remaining = retryDelay * d[x].attempt]
             ELSE [d[x] EXCEPT !.st = "dropped"]]

\* sendEvent's catch block (fetch rejected, or !response.ok threw): the
\* next attempt is armed after retryDelay * attempt, or the event is given up
SendEventCatch(d, event) ==
    IF d[event].attempt < retryAttempts
    THEN LET delay == retryDelay * d[event].attempt
         IN  [d EXCEPT ![event].st = "waiting", ![event].remaining = delay]
    ELSE [d EXCEPT ![event].st = "dropped"]

\* failed attempts so far
RECURSIVE Failures(_, _)
Failures(d, n) ==
    IF n = 0 THEN 0
    ELSE Failures(d, n - 1) +
         (IF n \in DOMAIN d
          THEN d[n].attempt - 1 + (IF d[n].st \in {"waiting", "dropped"} THEN 1 ELSE 0)
          ELSE 0)

RECURSIVE SendAll(_, _, _)
SendAll(d, events, i) ==
    IF i > Len(events) THEN d
    ELSE SendAll(SendEvent(d, events[i], 1), events, i + 1)

\* a flush whose dispatch loop stops before the last drained event
FlushSkipLast(a) ==
    IF Len(a.eventQueue) = 0 THEN a
    ELSE LET events == a.eventQueue
         IN  [a EXCEPT !.eventQueue = <<>>,
                       !.timers = IF a.batchTimer # 0
                                  THEN ClearTimeout(a.timers, a.batchTimer) ELSE a.timers,
                       !.batchTimer = 0,
                       !.delivery = SendAll(a.delivery, SubSeq(events, 1, Len(events) - 1), 1),
                       !.batches = Append(a.batches, events)]

\* a flush that leaves the pending timer armed
FlushKeepTimer(a) ==
    IF Len(a.eventQueue) = 0 THEN a
    ELSE [a EXCEPT !.eventQueue = <<>>,
                   !.delivery = SendAll(a.delivery, a.eventQueue, 1),
                   !.batches = Append(a.batches, a.eventQueue)]

\* flush()
Flush(a) ==
    IF Len(a.eventQueue) = 0 THEN a
    ELSE LET events == a.eventQueue
         IN  [a EXCEPT !.eventQueue = <<>>,
                       !.timers = IF a.batchTimer # 0
                                  THEN ClearTimeout(a.timers, a.batchTimer) ELSE a.timers,
                       !.batchTimer = 0,
                       !.delivery = SendAll(a.delivery, events, 1),
                       !.batches = Append(a.batches, events)]

\* queueEvent without its clearTimeout
QueueEventNoClear(a, e) ==
    LET pushed  == [a EXCEPT !.eventQueue = Append(a.eventQueue, e)]
    IN  IF Len(pushed.eventQueue) >= batchSize
        THEN Flush(pushed)
        ELSE [pushed EXCEPT !.timers = SetTimeout(pushed.timers, e, batchTimeout),
                            !.batchTimer = e]

\* queueEvent with > in place of >= in the size test
QueueEventStrict(a, e) ==
    LET pushed  == [a EXCEPT !.eventQueue = Append(a.eventQueue, e),
                             !.timers = IF a.batchTimer # 0
                                        THEN ClearTimeout(a.timers, a.batchTimer)
                                        ELSE a.timers]
    IN  IF Len(pushed.eventQueue) > batchSize
        THEN Flush(pushed)
        ELSE [pushed EXCEPT !.timers = SetTimeout(pushed.timers, e, batchTimeout),
                            !.batchTimer = e]

\* queueEvent(eventType, value, metadata) for event number e; the handle
\* setTimeout returns is fresh, and e serves as it
QueueEventResult(a, e) ==
    LET pushed  == [a EXCEPT !.eventQueue = Append(a.eventQueue, e),
                             !.timers = IF a.batchTimer # 0
                                        THEN ClearTimeout(a.timers, a.batchTimer)
                                        ELSE a.timers]
    IN  IF Len(pushed.eventQueue) >= batchSize
        THEN Flush(pushed)
        ELSE [pushed EXCEPT !.timers = SetTimeout(pushed.timers, e, batchTimeout),
                            !.batchTimer = e]

SetAgent(a) ==
    /\ eventQueue' = a.eventQueue
    /\ batchTimer' = a.batchTimer
    /\ timers' = a.timers
    /\ delivery' = a.delivery
    /\ batches' = a.batches

AgentInit ==
    /\ eventQueue = <<>>
    /\ batchTimer = 0
    /\ timers = <<>>
    /\ tracked = 0
    /\ delivery = <<>>
    /\ batches = <<>>
    /\ idle = 0
    /\ lastOp = "init"

\* trackPageview / trackSession / trackEvent / trackConversion
QueueEvent ==
    /\ tracked < MaxEvents
    /\ SetAgent(QueueEventResult(Agent, tracked + 1))
    /\ tracked' = tracked + 1
    /\ idle' = 0
    /\ lastOp' = "queueEvent"
    /\ UNCHANGED <<codecVars, serverVars, queryVars, adminVars, chainVars, hookVars>>

\* the callback of the batch timer: () => this.flush()
BatchTimerFire ==
    /\ \E h \in DOMAIN timers :
         /\ timers[h] = 0
         /\ SetAgent(Flush([Agent EXCEPT !.timers = ClearTimeout(timers, h)]))
    /\ lastOp' = "timer"
    /\ UNCHANGED <<tracked, idle, codecVars, serverVars, queryVars, adminVars, chainVars, hookVars>>

\* visibilitychange with document.hidden
VisibilityHidden ==
    /\ SetAgent(Flush(Agent))
    /\ lastOp' = "hidden"
    /\ UNCHANGED <<tracked, idle, codecVars, serverVars, queryVars, adminVars, chainVars, hookVars>>

\* beforeunload
BeforeUnload ==
    /\ SetAgent(Flush(Agent))
    /\ lastOp' = "unload"
    /\ UNCHANGED <<tracked, idle, codecVars, serverVars, queryVars, adminVars, chainVars, hookVars>>

\* the fetch of an event's attempt resolved with response.ok
ResponseOk(e) ==
    /\ e \in DOMAIN delivery
    /\ delivery[e].st = "inflight"
    /\ delivery' = SendEventOk(delivery, e)
    /\ lastOp' = "response"
    /\ UNCHANGED <<eventQueue, batchTimer, timers, tracked, batches, idle,
                   codecVars, serverVars, queryVars, adminVars, chainVars, hookVars>>

\* the fetch of an event's attempt rejected or resolved with !response.ok
ResponseFail(e) ==
    /\ e \in DOMAIN delivery
    /\ delivery[e].st = "inflight"
    /\ Failures(delivery, MaxEvents) < MaxFailures
    /\ delivery' = SendEventCatch(delivery, e)
    /\ lastOp' = "response"
    /\ UNCHANGED <<eventQueue, batchTimer, timers, tracked, batches, idle,
                   codecVars, serverVars, queryVars, adminVars, chainVars, hookVars>>

\* the callback of a retry timer: () => this.sendEvent(event, attempt + 1)
RetryTimerFire(e) ==
    /\ e \in DOMAIN delivery
    /\ delivery[e].st = "waiting"
    /\ delivery[e].remaining = 0
    /\ delivery' = SendEvent(delivery, e, delivery[e].attempt + 1)
    /\ lastOp' = "retry"
    /\ UNCHANGED <<eventQueue, batchTimer, timers, tracked, batches, idle,
                   codecVars, serverVars, queryVars, adminVars, chainVars, hookVars>>

\* the events whose retry timer is armed
Waiting == {e \in DOMAIN delivery : delivery[e].st = "waiting"}

\* TimeUnit ms pass; a timer that is due fires before more time passes
Tick ==
    /\ \A h \in DOMAIN timers : timers[h] > 0
    /\ \A e \in Waiting : delivery[e].remaining > 0
    /\ DOMAIN timers # {} \/ Waiting # {}
    /\ timers' = [h \in DOMAIN timers |->
                    IF timers[h] > TimeUnit THEN timers[h] - TimeUnit ELSE 0]
    /\ delivery' = [e \in DOMAIN delivery |->
                      IF e \in Waiting
                      THEN [delivery[e] EXCEPT !.remaining =
                               IF @ > TimeUnit THEN @ - TimeUnit ELSE 0]
                      ELSE delivery[e]]
    /\ idle' = IF idle + TimeUnit > batchTimeout THEN batchTimeout ELSE idle + TimeUnit
    /\ lastOp' = "tick"
    /\ UNCHANGED <<eventQueue, batchTimer, tracked, batches, codecVars, serverVars, queryVars, adminVars, chainVars, hookVars>>

\* the agent while the responses to its POSTs are still outstanding
AgentNext == QueueEvent \/ BatchTimerFire \/ VisibilityHidden \/ BeforeUnload \/ Tick

\* the agent with the responses, for a page that tracks MaxSent events
DeliveryNext ==
    \/ tracked < MaxSent /\ QueueEvent
    \/ BatchTimerFire
    \/ VisibilityHidden
    \/ BeforeUnload
    \/ Tick
    \/ \E e \in 1..MaxSent : ResponseOk(e) \/ ResponseFail(e) \/ RetryTimerFire(e)

-----------------------------------------------------------------------------
(* Store: server/storage.ts over the tables origins, fhe_keys and          *)
(* encrypted_events.  A store call either runs its query or throws.        *)

NoOrigin == [id |-> "none", token |-> "none"]

\* a lookup whose where clause is lost: the first row, whatever the token
GetOriginByTokenAny(token) == CHOOSE o \in origins : TRUE

\* const [origin] = select ... where token = :token
GetOriginByToken(token) ==
    IF \E o \in origins : o.token = token
    THEN CHOOSE o \in origins : o.token = token
    ELSE NoOrigin

\* a key lookup whose where clause lost the origin
HasActiveKeyAnyOrigin(originId) == \E k \in fheKeys : k.isActive = "true"

\* select ... where originId = :id and isActive = 'true' ... limit 1
HasActiveKey(originId) ==
    \E k \in fheKeys : k.originId = originId /\ k.isActive = "true"

\* an insert that stores its row twice
CreateEncryptedEventTwice(rows, row) == Append(Append(rows, row), row)

\* insert into encrypted_events ... returning
CreateEncryptedEvent(rows, row) == Append(rows, row)

\* order by timestamp desc: row i comes before row j when its timestamp is
\* greater, and rows that tie keep the order they are scanned in
OrderByTimestampDesc(s) ==
    LET n == Len(s)
        Before(i, j) == \/ s[i].timestamp > s[j].timestamp
                        \/ s[i].timestamp = s[j].timestamp /\ i < j
        Rank(i) == 1 + Cardinality({j \in 1..n : Before(j, i)})
    IN  [k \in 1..n |-> s[CHOOSE i \in 1..n : Rank(i) = k]]

Limit(s, n) == IF Len(s) <= n THEN s ELSE SubSeq(s, 1, n)

\* a query without its order by clause
GetEventsByOriginUnordered(rows, originId, limit) ==
    LET OfOrigin(e) == e.originId = originId
    IN  Limit(SelectSeq(rows, OfOrigin), limit)

\* getEventsByOrigin(originId, limit)
GetEventsByOrigin(rows, originId, limit) ==
    LET OfOrigin(e) == e.originId = originId
    IN  Limit(OrderByTimestampDesc(SelectSeq(rows, OfOrigin)), limit)

-----------------------------------------------------------------------------
(* Collection endpoint, recompute step and SSE broker: server/routes.ts.   *)

MaxReqs  == 2       \* POST /api/collect requests in a run
MaxConns == 2       \* GET /api/metrics/:originId/stream connections in a run

Reqs  == 1..MaxReqs
Conns == 1..MaxConns

EventTypes == {"pageview", "session", "conversion", "event"}
WindowLimit == 1000

\* the registered origins: A with its key, and B whose registration stopped
\* after createOrigin (createFheKey threw), so that it has no key
OriginA == [id |-> "A", token |-> "fhe_sk_a"]
OriginB == [id |-> "B", token |-> "fhe_sk_b"]
OriginIds == {"A", "B"}
Tokens == {"fhe_sk_a", "fhe_sk_b", "fhe_sk_unknown"}

\* a string field that is absent, and a string where a number or an
\* ISO-8601 date-time is expected
Missing == "undefined"
Str == [kind |-> "str", n |-> 0]
PostedTokens == Tokens \cup {Missing}

\* request bodies a client may post (originToken is chosen besides); a
\* timestamp Fin(n) is the ISO-8601 date-time of instant n
Bodies ==
    { [timestamp |-> Fin(1), page |-> "/a", eventType |-> "pageview",   value |-> Undef],
      [timestamp |-> Fin(2), page |-> "/a", eventType |-> "session",    value |-> Fin(2)],
      [timestamp |-> Fin(2), page |-> "/b", eventType |-> "click",      value |-> Undef],
      [timestamp |-> Fin(1), page |-> Missing, eventType |-> "pageview", value |-> Undef],
      [timestamp |-> Undef,  page |-> "/a", eventType |-> "pageview",   value |-> Undef],
      [timestamp |-> Str,    page |-> "/a", eventType |-> "pageview",   value |-> Undef],
      [timestamp |-> Fin(1), page |-> "/a", eventType |-> "pageview",   value |-> Str] }

\* a schema that checks the types of the fields but not the event type
SchemaOkAnyType(body) ==
    /\ body.originToken # Missing
    /\ IsFinite(body.timestamp)
    /\ body.page # Missing
    /\ body.value = Undef \/ IsFinite(body.value) \/ body.value.kind = "inf"

\* schema.parse(req.body) succeeds
SchemaOk(body) ==
    /\ body.originToken # Missing
    /\ IsFinite(body.timestamp)
    /\ body.page # Missing
    /\ body.eventType \in EventTypes
    /\ body.value = Undef \/ IsFinite(body.value) \/ body.value.kind = "inf"

\* history: the body misses originToken, page or timestamp, or its
\* timestamp is no ISO-8601 date-time, or its eventType is none of the
\* four, or its value is no number
ShapeDefect(body) ==
    \/ body.originToken = Missing
    \/ body.page = Missing
    \/ body.timestamp = Undef
    \/ body.timestamp = Str
    \/ body.eventType \notin {"pageview", "session", "conversion", "event"}
    \/ body.value = Str

\* Math.round in place of Math.floor
RoundTimes07(x) == Fin((7 * x.n + 5) \div 10)

\* Math.floor(x * 0.7) and Math.floor(x / y), on finite numbers
FloorTimes07(x) == Fin((7 * x.n) \div 10)
FloorDiv(x, y)  == Fin(x.n \div y.n)

\* a total that counts the events of one type instead of summing them
TypeTotalCount(events, eventType, now) ==
    LET OfType(e) == e.eventType = eventType
    IN  Fin(Len(SelectSeq(events, OfType)))

\* the sum of the blobs of the events of one type, decrypted
TypeTotal(events, eventType, now) ==
    LET OfType(e) == e.eventType = eventType
        typed == SelectSeq(events, OfType)
        blobs == [i \in 1..Len(typed) |-> typed[i].cipherBlob]
        cipher == IF Len(typed) > 0 THEN HomomorphicSum(blobs, now) ELSE ZeroCipher
    IN  DecryptValue(cipher)

\* a snapshot that reports every session as a visitor
ComputeSnapshotAllVisitors(events, now) ==
    LET pageviews   == TypeTotal(events, "pageview", now)
        sessions    == TypeTotal(events, "session", now)
        conversions == TypeTotal(events, "conversion", now)
        avgSession  == IF sessions.n > 0 THEN FloorDiv(pageviews, sessions) ELSE Fin(0)
    IN  [visitors |-> sessions, pageviews |-> pageviews, sessions |-> sessions,
         avgSession |-> avgSession, conversions |-> conversions, encrypted |-> TRUE]

\* the object the recompute step hands to broadcastMetricsUpdate
ComputeSnapshot(events, now) ==
    LET pageviews   == TypeTotal(events, "pageview", now)
        sessions    == TypeTotal(events, "session", now)
        conversions == TypeTotal(events, "conversion", now)
        visitors    == FloorTimes07(sessions)
        avgSession  == IF sessions.n > 0 THEN FloorDiv(pageviews, sessions) ELSE Fin(0)
    IN  [visitors |-> visitors, pageviews |-> pageviews, sessions |-> sessions,
         avgSession |-> avgSession, conversions |-> conversions, encrypted |-> TRUE]

\* frames on a stream
ConnectedFrame(originId) == [connected |-> TRUE, originId |-> originId, metrics |-> <<>>]
MetricsFrame(metrics) == [connected |-> FALSE, originId |-> "", metrics |-> <<metrics>>]
IsMetricsFrame(f) == f.metrics # <<>>

\* the clock: Date.now() reads the number of rows stored so far
Now == Len(encryptedEvents)

\* a request's handler: its position, the status it answered with (0: none
\* yet), its locals, and how often it called setImmediate and
\* broadcastMetricsUpdate
\* history: the token it posted, what ended it ("schema": parse threw,
\* "store": a store call threw, "token": no origin, "key": no key), and
\* the body.value of an accepted request, and whether the body was malformed
NewReq == [pc |-> "new", status |-> 0, originId |-> "none",
           snapshot |-> <<>>, scheduled |-> 0, published |-> 0,
           token |-> "", why |-> "", value |-> Undef, malformed |-> FALSE]
\* a connection: the frames written to it and the number of write calls on
\* it; both are those since its transport closed once it is closed
NewConn == [st |-> "new", originId |-> "none", frames |-> <<>>, writes |-> 0]
NoEntry == [has |-> FALSE, clients |-> {}]

ServerInit ==
    /\ origins = {OriginA, OriginB}
    /\ fheKeys = {[originId |-> "A", isActive |-> "true"]}
    /\ encryptedEvents = <<>>
    /\ sseClients = [o \in OriginIds |-> NoEntry]
    /\ reqs = [r \in Reqs |-> NewReq]
    /\ conns = [c \in Conns |-> NewConn]

\* the handler's answer: res.status(code).json(...)
Respond(r, code, token, why) ==
    [reqs EXCEPT ![r].pc = "done", ![r].status = code, ![r].token = token, ![r].why = why]

\* the smallest and the other members of a non-empty set of connections:
\* forEach visits a Set in insertion order, which is the order of the numbers
First(S) == CHOOSE c \in S : \A d \in S : c <= d

\* clients.forEach(client => { try { client.write(frame) } catch { clients.delete(client) } })
\* over the members not yet visited; the writes to the members of failing throw
RECURSIVE ForEachWrite(_, _, _, _, _)
ForEachWrite(todo, clients, cs, frame, failing) ==
    IF todo = {} THEN [clients |-> clients, conns |-> cs]
    ELSE LET c == First(todo)
             written == [cs EXCEPT ![c].writes = @ + 1,
                                   ![c].frames = IF c \in failing THEN @ ELSE Append(@, frame)]
         IN  ForEachWrite(todo \ {c},
                          IF c \in failing THEN clients \ {c} ELSE clients,
                          written, frame, failing)

\* the set forEach is iterating, as it is after each callback of the pass
RECURSIVE ForEachSets(_, _, _)
ForEachSets(todo, clients, failing) ==
    IF todo = {} THEN <<>>
    ELSE LET c == First(todo)
             now == IF c \in failing THEN clients \ {c} ELSE clients
         IN  <<now>> \o ForEachSets(todo \ {c}, now, failing)

\* a broadcast that gives up at the first write that throws
RECURSIVE ForEachWriteAbort(_, _, _, _, _)
ForEachWriteAbort(todo, clients, cs, frame, failing) ==
    IF todo = {} THEN [clients |-> clients, conns |-> cs]
    ELSE LET c == First(todo)
             written == [cs EXCEPT ![c].writes = @ + 1,
                                   ![c].frames = IF c \in failing THEN @ ELSE Append(@, frame)]
         IN  IF c \in failing THEN [clients |-> clients \ {c}, conns |-> written]
             ELSE ForEachWriteAbort(todo \ {c}, clients, written, frame, failing)

BroadcastAbort(map, cs, originId, metrics, failing) ==
    IF ~map[originId].has THEN [map |-> map, conns |-> cs]
    ELSE LET done == ForEachWriteAbort(map[originId].clients, map[originId].clients,
                                       cs, MetricsFrame(metrics), failing)
         IN  [map |-> [map EXCEPT ![originId].clients = done.clients], conns |-> done.conns]

\* a broadcast to the connections of every origin
BroadcastEveryOrigin(map, cs, originId, metrics, failing) ==
    LET everyone == UNION {map[o].clients : o \in OriginIds}
        done == ForEachWrite(everyone, map[originId].clients, cs,
                             MetricsFrame(metrics), failing)
    IN  [map |-> [map EXCEPT ![originId].clients = done.clients], conns |-> done.conns]

\* broadcastMetricsUpdate(originId, metrics)
BroadcastMetricsUpdate(map, cs, originId, metrics, failing) ==
    IF ~map[originId].has THEN [map |-> map, conns |-> cs]
    ELSE LET data == MetricsFrame(metrics)
             done == ForEachWrite(map[originId].clients, map[originId].clients,
                                  cs, data, failing)
         IN  [map |-> [map EXCEPT ![originId].clients = done.clients], conns |-> done.conns]

\* a handler that leaves the response to the recompute step
AcceptedNoResponse(r, originId, token, body) ==
    [reqs EXCEPT ![r].pc = "recompute", ![r].originId = originId, ![r].token = token,
                 ![r].scheduled = @ + 1, ![r].value = body.value]

\* the end of an accepting handler: setImmediate(recompute), then
\* res.status(202).json({accepted, encrypted, realtime, message})
Accepted(r, originId, token, body) ==
    [reqs EXCEPT ![r].pc = "recompute", ![r].status = 202, ![r].originId = originId,
                 ![r].token = token, ![r].scheduled = @ + 1, ![r].value = body.value]

\* a row that names the token's holder by a constant instead of origin.id
EventRowNoOrigin(id, originId, body, now) ==
    [id |-> id, originId |-> "none", timestamp |-> body.timestamp.n,
     page |-> body.page, eventType |-> body.eventType,
     cipherBlob |-> EncryptValue(JsOr(body.value, Fin(1)), now)]

\* body.value || 0 in place of body.value || 1
EventRowDefaultZero(id, originId, body, now) ==
    [id |-> id, originId |-> originId, timestamp |-> body.timestamp.n,
     page |-> body.page, eventType |-> body.eventType,
     cipherBlob |-> EncryptValue(JsOr(body.value, Fin(0)), now)]

\* the row the handler inserts for a body posted for origin originId
EventRow(id, originId, body, now) ==
    LET value == JsOr(body.value, Fin(1))
    IN  [id |-> id, originId |-> originId, timestamp |-> body.timestamp.n,
         page |-> body.page, eventType |-> body.eventType,
         cipherBlob |-> EncryptValue(value, now)]

\* history: whether the body request r posted was malformed
Noted(rs, r, body) == [rs EXCEPT ![r].malformed = ShapeDefect(body)]

\* POST /api/collect, from the request to the response, for the posted
\* token and fields.  The three store calls (calls = 3) run, or the first,
\* second or third of them throws (calls = 0, 1, 2).  The tables the two
\* lookups read are written by no other step, so the handler's awaits are
\* not separate steps here.
CollectRequest(r, token, fields, calls) ==
    LET body == fields @@ [originToken |-> token]
        origin == GetOriginByToken(token)
    IN  IF ~SchemaOk(body) THEN
            /\ reqs' = Noted(Respond(r, 400, "", "schema"), r, body)
            /\ UNCHANGED encryptedEvents
        ELSE IF calls = 0 THEN
            /\ reqs' = Noted(Respond(r, 400, token, "store"), r, body)
            /\ UNCHANGED encryptedEvents
        ELSE IF origin = NoOrigin THEN
            /\ reqs' = Noted(Respond(r, 401, token, "token"), r, body)
            /\ UNCHANGED encryptedEvents
        ELSE IF calls = 1 THEN
            /\ reqs' = Noted(Respond(r, 400, token, "store"), r, body)
            /\ UNCHANGED encryptedEvents
        ELSE IF ~HasActiveKey(origin.id) THEN
            /\ reqs' = Noted(Respond(r, 500, token, "key"), r, body)
            /\ UNCHANGED encryptedEvents
        ELSE IF calls = 2 THEN
            /\ reqs' = Noted(Respond(r, 400, token, "store"), r, body)
            /\ UNCHANGED encryptedEvents
        ELSE
            /\ encryptedEvents' = CreateEncryptedEvent(encryptedEvents,
                                      EventRow(r, origin.id, body, Now))
            /\ reqs' = Noted(Accepted(r, origin.id, token, body), r, body)

\* a POST /api/collect request arrives at the Express server
Collect(r) ==
    /\ reqs[r].pc = "new"
    /\ IF r = 1 THEN TRUE ELSE reqs[r - 1].pc # "new"
    /\ \E token \in PostedTokens, fields \in Bodies, calls \in 0..3 :
         CollectRequest(r, token, fields, calls)
    /\ UNCHANGED <<origins, fheKeys, sseClients, conns, codecVars, agentVars, queryVars, adminVars, chainVars, hookVars>>

\* a catch block that answers the request with an error
RecomputeFailedResponds(r) == [reqs EXCEPT ![r].pc = "done", ![r].status = 500]

\* catch (error) { console.error('[SSE] Failed to broadcast update:', error) }
RecomputeFailed(r) == [reqs EXCEPT ![r].pc = "done"]

\* a recompute that reads the store as it was before the handler's insert
RecomputeReadBeforeInsert(r) ==
    /\ reqs[r].pc = "recompute"
    /\ \E dbOk \in BOOLEAN :
         reqs' = IF dbOk
                 THEN [reqs EXCEPT ![r].pc = "publish",
                         ![r].snapshot = SelectSeq(
                             GetEventsByOrigin(encryptedEvents, reqs[r].originId, WindowLimit),
                             LAMBDA e : e.id # r)]
                 ELSE RecomputeFailed(r)
    /\ UNCHANGED <<origins, fheKeys, encryptedEvents, sseClients, conns, codecVars, agentVars, queryVars, adminVars, chainVars, hookVars>>

\* the setImmediate callback up to its await: the window is read
RecomputeRead(r) ==
    /\ reqs[r].pc = "recompute"
    /\ \E dbOk \in BOOLEAN :
         reqs' = IF dbOk
                 THEN [reqs EXCEPT ![r].pc = "publish",
                         ![r].snapshot = GetEventsByOrigin(encryptedEvents,
                                                           reqs[r].originId, WindowLimit)]
                 ELSE RecomputeFailed(r)
    /\ UNCHANGED <<origins, fheKeys, encryptedEvents, sseClients, conns, codecVars, agentVars, queryVars, adminVars, chainVars, hookVars>>

\* a publish that reads the window again when it runs
PublishFresh(r) ==
    /\ reqs[r].pc = "publish"
    /\ \E failing \in SUBSET sseClients[reqs[r].originId].clients :
         LET events == GetEventsByOrigin(encryptedEvents, reqs[r].originId, WindowLimit)
             out == BroadcastMetricsUpdate(sseClients, conns, reqs[r].originId,
                                           ComputeSnapshot(events, Now), failing)
         IN  /\ sseClients' = out.map
             /\ conns' = out.conns
    /\ reqs' = [reqs EXCEPT ![r].pc = "done", ![r].snapshot = <<>>, ![r].published = @ + 1]
    /\ UNCHANGED <<origins, fheKeys, encryptedEvents, codecVars, agentVars, queryVars, adminVars, chainVars, hookVars>>

\* a recompute that runs again and again (setInterval for setImmediate)
PublishRepeating(r) ==
    /\ reqs[r].pc = "publish"
    /\ \E failing \in SUBSET sseClients[reqs[r].originId].clients :
         LET out == BroadcastMetricsUpdate(sseClients, conns, reqs[r].originId,
                                           ComputeSnapshot(reqs[r].snapshot, Now), failing)
         IN  /\ sseClients' = out.map
             /\ conns' = out.conns
    /\ reqs' = [reqs EXCEPT ![r].published = @ + 1]
    /\ UNCHANGED <<origins, fheKeys, encryptedEvents, codecVars, agentVars, queryVars, adminVars, chainVars, hookVars>>

\* ... to its end: the metrics are computed and broadcast
Publish(r) ==
    /\ reqs[r].pc = "publish"
    /\ \E failing \in SUBSET sseClients[reqs[r].originId].clients :
         LET out == BroadcastMetricsUpdate(sseClients, conns, reqs[r].originId,
                                           ComputeSnapshot(reqs[r].snapshot, Now), failing)
         IN  /\ sseClients' = out.map
             /\ conns' = out.conns
    /\ reqs' = [reqs EXCEPT ![r].pc = "done", ![r].snapshot = <<>>, ![r].published = @ + 1]
    /\ UNCHANGED <<origins, fheKeys, encryptedEvents, codecVars, agentVars, queryVars, adminVars, chainVars, hookVars>>

\* a stream that is registered but sent no connection notice
SubscribedSilent(originId) ==
    [st |-> "open", originId |-> originId, frames |-> <<>>, writes |-> 0]

\* the connection after res.write(`data: ${JSON.stringify({connected: true, originId})}`)
Subscribed(originId) ==
    [st |-> "open", originId |-> originId, frames |-> <<ConnectedFrame(originId)>>,
     writes |-> 1]

\* GET /api/metrics/:originId/stream
Subscribe(c) ==
    /\ conns[c].st = "new"
    /\ IF c = 1 THEN TRUE ELSE conns[c - 1].st # "new"
    /\ \E originId \in OriginIds :
         /\ sseClients' = [sseClients EXCEPT ![originId] =
                              [has |-> TRUE, clients |-> @.clients \cup {c}]]
         /\ conns' = [conns EXCEPT ![c] = Subscribed(originId)]
    /\ UNCHANGED <<origins, fheKeys, encryptedEvents, reqs, codecVars, agentVars, queryVars, adminVars, chainVars, hookVars>>

\* a 'close' handler that leaves the map as it is
OnCloseKeep(map, originId, c) == map

\* the map after the 'close' handler of a connection of originId
OnClose(map, originId, c) ==
    IF ~map[originId].has THEN map
    ELSE LET left == map[originId].clients \ {c}
         IN  [map EXCEPT ![originId] = IF left = {} THEN NoEntry
                                       ELSE [has |-> TRUE, clients |-> left]]

\* req.on('close'): the transport of a stream closed
Close(c) ==
    /\ conns[c].st = "open"
    /\ sseClients' = OnClose(sseClients, conns[c].originId, c)
    /\ conns' = [conns EXCEPT ![c] = [NewConn EXCEPT !.st = "closed"]]
    /\ UNCHANGED <<origins, fheKeys, encryptedEvents, reqs, codecVars, agentVars, queryVars, adminVars, chainVars, hookVars>>

ServerNext ==
    \/ \E r \in Reqs : Collect(r) \/ RecomputeRead(r) \/ Publish(r)
    \/ \E c \in Conns : Subscribe(c) \/ Close(c)

-----------------------------------------------------------------------------
(* The agent and the collection endpoint together: each attempt of         *)
(* sendEvent is a POST /api/collect of the event's body.                   *)

\* the body queueEvent built for event e; the events of a page view differ
\* in their timestamps, and e stands for the instant of event e
AgentBody(e) ==
    [originToken |-> "fhe_sk_a", timestamp |-> Fin(e), page |-> "/a",
     eventType |-> "pageview", value |-> Fin(1)]

\* the POST of event e's attempt reaches the server, which accepts it and
\* stores a row; the 202 arrives and the fetch resolves, or the response is
\* lost on its way and the fetch rejects
PostAccepted(e) ==
    /\ e \in DOMAIN delivery
    /\ delivery[e].st = "inflight"
    /\ encryptedEvents' =
          CreateEncryptedEvent(encryptedEvents,
              EventRow(Len(encryptedEvents) + 1, GetOriginByToken(AgentBody(e).originToken).id,
                       AgentBody(e), Now))
    /\ \E arrives \in BOOLEAN :
         IF arrives THEN delivery' = SendEventOk(delivery, e)
         ELSE /\ Failures(delivery, MaxEvents) < MaxFailures
              /\ delivery' = SendEventCatch(delivery, e)
    /\ lastOp' = "response"
    /\ UNCHANGED <<eventQueue, batchTimer, timers, tracked, batches, idle,
                   origins, fheKeys, sseClients, reqs, conns,
                   codecVars, queryVars, adminVars, chainVars, hookVars>>

\* the POST of event e's attempt never reaches the server, or the server
\* answers it with an error status: nothing is stored
PostRefused(e) ==
    /\ e \in DOMAIN delivery
    /\ delivery[e].st = "inflight"
    /\ Failures(delivery, MaxEvents) < MaxFailures
    /\ delivery' = SendEventCatch(delivery, e)
    /\ lastOp' = "response"
    /\ UNCHANGED <<eventQueue, batchTimer, timers, tracked, batches, idle,
                   codecVars, serverVars, queryVars, adminVars, chainVars, hookVars>>

PipelineNext ==
    \/ tracked < MaxSent /\ QueueEvent
    \/ BatchTimerFire
    \/ VisibilityHidden
    \/ Tick
    \/ \E e \in 1..MaxSent : PostAccepted(e) \/ PostRefused(e) \/ RetryTimerFire(e)

-----------------------------------------------------------------------------
(* The collect branch of the serverless handler, given the request the     *)
(* Express route is given, over the same tables.  Its answer and the row   *)
(* it inserts are kept in admin[r] beside the Express request r.           *)

\* the value field of the blob JSON.stringify writes
JsonValue(x) == IF x.kind = "str" THEN x ELSE JsonNumber(x)

\* if (url === '/api/collect' && method === 'POST') { ... }: sqlCalls is the
\* number of sql calls that run before one throws (2: none throws); threw
\* is history
ServerlessCollect(body, sqlCalls, now) ==
    LET origin == GetOriginByToken(body.originToken)
        answer(status, threw, row) ==
            [op |-> "collect", status |-> status, threw |-> threw, row |-> row]
    IN  IF body.originToken = Missing THEN answer(400, FALSE, <<>>)
        ELSE IF sqlCalls = 0 THEN answer(500, TRUE, <<>>)
        ELSE IF origin = NoOrigin THEN answer(404, FALSE, <<>>)
        ELSE IF sqlCalls = 1 THEN answer(500, TRUE, <<>>)
        ELSE answer(201, FALSE,
                    <<[originId |-> origin.id, page |-> body.page,
                       eventType |-> body.eventType,
                       cipherBlob |-> [value |-> JsonValue(JsOr(body.value, Fin(1))),
                                       encrypted |-> TRUE, timestamp |-> Fin(now)]]>>)

ContractInit ==
    /\ origins = {OriginA, OriginB}
    /\ fheKeys = {[originId |-> "A", isActive |-> "true"],
                  [originId |-> "B", isActive |-> "true"]}
    /\ encryptedEvents = <<>>
    /\ sseClients = [o \in OriginIds |-> NoEntry]
    /\ reqs = [r \in Reqs |-> NewReq]
    /\ conns = [c \in Conns |-> NewConn]
    /\ roles = {}
    /\ admin = [r \in Reqs |-> [op |-> "none", status |-> 0, threw |-> FALSE, row |-> <<>>]]

\* the bodies posted: those of the server runs, and one whose value is 0
ContractBodies ==
    Bodies \cup {[timestamp |-> Fin(1), page |-> "/a", eventType |-> "session",
                  value |-> Fin(0)]}

\* one request is given to both handlers
PostBoth(r) ==
    /\ reqs[r].pc = "new"
    /\ IF r = 1 THEN TRUE ELSE reqs[r - 1].pc # "new"
    /\ \E token \in PostedTokens, fields \in ContractBodies, calls \in 0..3, sqlCalls \in 0..2 :
         /\ CollectRequest(r, token, fields, calls)
         /\ admin' = [admin EXCEPT ![r] =
                         ServerlessCollect(fields @@ [originToken |-> token], sqlCalls, Now)]
    /\ UNCHANGED <<origins, fheKeys, sseClients, conns, roles, codecVars, agentVars, queryVars, chainVars, hookVars>>

ContractNext == \E r \in Reqs : PostBoth(r)

-----------------------------------------------------------------------------
(* Read endpoints: GET /api/metrics/:originId of server/routes.ts and      *)
(* getEventsByOrigin of server/storage.ts, over a table of events.         *)

\* Math.floor(x / y) for integers x and y # 0
FloorQuot(x, y) == IF y > 0 THEN x \div y ELSE (0 - x) \div (0 - y)

\* a bounce rate without the sessions > 0 guard
BounceRateUnguarded(sessions, avgSession, pageviews) ==
    IF pageviews.n = 0 THEN NaN
    ELSE Fin(FloorQuot((pageviews.n - avgSession.n) * 100, pageviews.n))

\* sessions > 0 ? Math.floor((1 - (avgSession / pageviews)) * 100) : 0
\* avgSession / pageviews is NaN for 0 / 0 (avgSession is 0 when pageviews is)
BounceRate(sessions, avgSession, pageviews) ==
    IF sessions.n > 0
    THEN IF pageviews.n = 0
         THEN (IF avgSession.n = 0 THEN NaN
               ELSE IF avgSession.n > 0 THEN NegInf ELSE PosInf)
         ELSE Fin(FloorQuot((pageviews.n - avgSession.n) * 100, pageviews.n))
    ELSE Fin(0)

\* the metrics object of the response, as res.json writes it
ComputeMetrics(events, now) ==
    LET pageviews   == TypeTotal(events, "pageview", now)
        sessions    == TypeTotal(events, "session", now)
        conversions == TypeTotal(events, "conversion", now)
        visitors    == FloorTimes07(sessions)
        avgSession  == IF sessions.n > 0 THEN FloorDiv(pageviews, sessions) ELSE Fin(0)
        bounceRate  == BounceRate(sessions, avgSession, pageviews)
    IN  [visitors |-> visitors, pageviews |-> pageviews, sessions |-> sessions,
         avgSession |-> avgSession, bounceRate |-> JsonNumber(bounceRate),
         conversions |-> conversions, encrypted |-> TRUE]

\* the names a plain object inherits from Object.prototype, among the pages
PrototypeKeys == {"constructor"}
\* a function, and what function + 1 or string + 1 gives
Fn == [kind |-> "fn", n |-> 0]

\* acc[page], for acc the entries <<[page, views], ...>> in insertion order
Lookup(acc, page) ==
    IF \E i \in 1..Len(acc) : acc[i].page = page
    THEN acc[CHOOSE i \in 1..Len(acc) : acc[i].page = page].views
    ELSE IF page \in PrototypeKeys THEN Fn ELSE Undef

\* acc[page] = views
Put(acc, page, views) ==
    IF \E i \in 1..Len(acc) : acc[i].page = page
    THEN [acc EXCEPT ![CHOOSE i \in 1..Len(acc) : acc[i].page = page].views = views]
    ELSE Append(acc, [page |-> page, views |-> views])

\* x + 1
PlusOne(x) == IF IsFinite(x) THEN Fin(x.n + 1) ELSE Str

\* the reducer: acc[event.page] = (acc[event.page] || 0) + 1; return acc
CountPage(acc, event) ==
    Put(acc, event.page, PlusOne(JsOr(Lookup(acc, event.page), Fin(0))))

\* the reducer run from acc over events[lo..hi] in order: the range is taken
\* in two halves, and the first half is computed before the second is begun
RECURSIVE ReducePages(_, _, _, _)
ReducePages(acc, events, lo, hi) ==
    IF lo > hi THEN acc
    ELSE IF lo = hi THEN CountPage(acc, events[lo])
    ELSE LET mid   == (lo + hi) \div 2
             first == ReducePages(acc, events, lo, mid)
         IN  IF first = <<>>
             THEN ReducePages(<<>>, events, mid + 1, hi)
             ELSE ReducePages(first, events, mid + 1, hi)

\* events.reduce((acc, event) => {...}, {})
PageGroups(events) == ReducePages(<<>>, events, 1, Len(events))

\* s with x inserted after the entries that have at least its views
RECURSIVE InsertByViews(_, _)
InsertByViews(s, x) ==
    IF s = <<>> THEN <<x>>
    ELSE IF Head(s).views.n < x.views.n THEN <<x>> \o s
         ELSE <<Head(s)>> \o InsertByViews(Tail(s), x)

\* entries.sort((a, b) => b[1] - a[1]) on numbers: stable, by views descending
RECURSIVE SortByViewsDesc(_, _)
SortByViewsDesc(s, n) ==
    IF n = 0 THEN <<>> ELSE InsertByViews(SortByViewsDesc(s, n - 1), s[n])

Orderings(s) ==
    {[i \in 1..Len(s) |-> s[f[i]]] :
        f \in {g \in [1..Len(s) -> 1..Len(s)] : \A i, j \in 1..Len(s) : g[i] = g[j] => i = j}}

TopPagesLimit == 5

\* the results Object.entries(pageGroups).sort(...).slice(0, 5) may give: when
\* some b[1] - a[1] is NaN the comparator is inconsistent and the order is
\* implementation-defined
TopPages(events) ==
    LET groups == PageGroups(events)
    IN  IF \A i \in 1..Len(groups) : IsFinite(groups[i].views)
        THEN {Limit(SortByViewsDesc(groups, Len(groups)), TopPagesLimit)}
        ELSE {Limit(sorted, TopPagesLimit) : sorted \in Orderings(groups)}

(* The tables a read may find: every table of up to MaxRows rows drawn    *)
(* from RowShapes, tables with more pages than the top-pages list holds,   *)
(* and a table with more rows of one origin than the default limit.        *)

MaxRows == 3
DefaultLimit == 100

StoredRow(originId, timestamp, page, eventType, value) ==
    [id |-> 0, originId |-> originId, timestamp |-> timestamp, page |-> page,
     eventType |-> eventType, cipherBlob |-> EncryptValue(Fin(value), timestamp)]

RowShapes ==
    { StoredRow("A", 1, "/a", "pageview", 1),
      StoredRow("A", 2, "/b", "pageview", 1),
      StoredRow("A", 2, "/a", "session", 1),
      StoredRow("A", 1, "/b", "session", 2),
      StoredRow("A", 3, "/a", "conversion", 1),
      StoredRow("A", 1, "constructor", "event", 1),
      StoredRow("B", 3, "/a", "pageview", 1),
      StoredRow("B", 2, "/b", "session", 1) }

PageLists ==
    { <<"/a", "/b", "/c", "/d", "/e", "/f", "/f">>,
      <<"/a", "/b", "/b", "/c", "/c", "/d", "/d", "/e", "/e", "/f", "/f", "/g">> }

\* the rows numbered in insert order
WithIds(s) == [i \in 1..Len(s) |-> [s[i] EXCEPT !.id = i]]

QueryTables ==
    {WithIds(s) : s \in SeqsUpTo(RowShapes, MaxRows)}
    \cup {[i \in 1..Len(ps) |-> [StoredRow("A", i, ps[i], "pageview", 1) EXCEPT !.id = i]] :
            ps \in PageLists}
    \cup {[i \in 1..(DefaultLimit + 1) |->
              [StoredRow("A", i, "/a", "event", 1) EXCEPT !.id = i]]}

QueryInit ==
    /\ origins = {OriginA, OriginB}
    /\ fheKeys = {[originId |-> "A", isActive |-> "true"]}
    /\ encryptedEvents \in QueryTables
    /\ sseClients = [o \in OriginIds |-> NoEntry]
    /\ reqs = [r \in Reqs |-> NewReq]
    /\ conns = [c \in Conns |-> NewConn]
    /\ queryPc = "idle"
    /\ queryRes = <<>>
    /\ aggregates = <<>>
    /\ proofs = <<>>

Reverse(s) == [i \in 1..Len(s) |-> s[Len(s) + 1 - i]]

\* the orders in which the table may hand its rows to a query that does
\* not order them, or orders them by a column on which they tie
Physical(rows) == {rows, Reverse(rows)}

\* a response; threw is history: the store call of the handler threw
Response(op, originId, status) ==
    [op |-> op, originId |-> originId, status |-> status, threw |-> status = 500,
     limitGiven |-> FALSE, limit |-> 0, metrics |-> <<>>, topPages |-> <<>>,
     events |-> <<>>]

\* GET /api/metrics/:originId
GetMetrics ==
    /\ queryPc = "idle"
    /\ \E originId \in OriginIds, dbOk \in BOOLEAN, rows \in Physical(encryptedEvents) :
         IF dbOk
         THEN LET events == GetEventsByOrigin(rows, originId, WindowLimit)
              IN  \E topPages \in TopPages(events) :
                    queryRes' = [Response("metrics", originId, 200) EXCEPT
                                    !.metrics = <<ComputeMetrics(events, Now)>>,
                                    !.topPages = topPages]
         ELSE queryRes' = Response("metrics", originId, 500)
    /\ queryPc' = "done"
    /\ UNCHANGED <<aggregates, proofs, codecVars, agentVars, serverVars, adminVars, chainVars, hookVars>>

\* storage.getEventsByOrigin(originId, limit), with and without its limit
GetEvents ==
    /\ queryPc = "idle"
    /\ \E originId \in OriginIds, given \in BOOLEAN, limit \in 0..MaxRows,
          rows \in Physical(encryptedEvents) :
         /\ given \/ limit = 0
         /\ queryRes' = [Response("events", originId, 200) EXCEPT
                            !.limitGiven = given,
                            !.limit = limit,
                            !.events = GetEventsByOrigin(rows, originId,
                                          IF given THEN limit ELSE DefaultLimit)]
    /\ queryPc' = "done"
    /\ UNCHANGED <<aggregates, proofs, codecVars, agentVars, serverVars, adminVars, chainVars, hookVars>>

\* the callback collect hands to setImmediate, run over the table: the
\* window it reads and the metrics it hands to broadcastMetricsUpdate; a
\* store call that throws is logged and nothing is published
RecomputeSnapshot ==
    /\ queryPc = "idle"
    /\ \E originId \in OriginIds, dbOk \in BOOLEAN, rows \in Physical(encryptedEvents) :
         IF dbOk
         THEN LET events == GetEventsByOrigin(rows, originId, WindowLimit)
              IN  queryRes' = [Response("snapshot", originId, 0) EXCEPT
                                  !.metrics = <<ComputeSnapshot(events, Now)>>]
         ELSE queryRes' = [Response("snapshot", originId, 0) EXCEPT !.threw = TRUE]
    /\ queryPc' = "done"
    /\ UNCHANGED <<aggregates, proofs, codecVars, agentVars, serverVars, adminVars, chainVars, hookVars>>

QueryNext == GetMetrics \/ GetEvents \/ RecomputeSnapshot

-----------------------------------------------------------------------------
(* Proofs: POST /api/proofs/:originId of server/routes.ts over the         *)
(* aggregates table of server/storage.ts, and generateProofDigest of       *)
(* server/fhe.ts.  A JSON text is a string; SHA-256 is taken to be free of *)
(* collisions, so a digest is held as the text it was computed from.       *)

MaxAggregates == 2     \* rows inserted in a run
MaxProofs == 2         \* proof requests in a run

Metrics == {"pageviews", "sessions"}
Days == {1, 2}
PlainTexts == {"1", "2", "many"}

\* the rows createAggregate may be given; valuePlain "" stands for null
AggregateRows ==
    [originId : {"A"}, day : Days, metric : Metrics, valuePlain : PlainTexts \cup {""}]

\* parseInt(text, 10)
ParseInt(text) ==
    CASE text = "1" -> Fin(1)
      [] text = "2" -> Fin(2)
      [] OTHER -> NaN

\* storage.createAggregate(aggregate)
CreateAggregate(table, row) == Append(table, row)

\* storage.getAggregatesByDay(originId, day): no ORDER BY
GetAggregatesByDay(rows, originId, day) ==
    SelectSeq(rows, LAMBDA a : a.originId = originId /\ a.day = day)

\* acc[key] = value on an object held as its entries in insertion order: a
\* key that is present keeps its place
SetKey(acc, key, value) ==
    IF \E i \in 1..Len(acc) : acc[i].key = key
    THEN [i \in 1..Len(acc) |-> IF acc[i].key = key THEN [key |-> key, value |-> value]
                                ELSE acc[i]]
    ELSE Append(acc, [key |-> key, value |-> value])

\* aggregates.reduce((acc, agg) => { if (agg.valuePlain) acc[agg.metric] =
\* parseInt(agg.valuePlain, 10); return acc }, {})
RECURSIVE AggregateData(_, _, _)
AggregateData(rows, i, acc) ==
    IF i > Len(rows) THEN acc
    ELSE AggregateData(rows, i + 1,
            IF rows[i].valuePlain # ""
            THEN SetKey(acc, rows[i].metric, ParseInt(rows[i].valuePlain))
            ELSE acc)

\* JSON.stringify of a number
NumberText(x) == IF IsFinite(x) THEN ToString(x.n) ELSE "null"

\* the entries from the i-th on, as JSON members separated by commas
RECURSIVE Members(_, _)
Members(acc, i) ==
    IF i > Len(acc) THEN ""
    ELSE (IF i > 1 THEN "," ELSE "")
         \o "\"" \o acc[i].key \o "\":" \o NumberText(acc[i].value)
         \o Members(acc, i + 1)

\* JSON.stringify(aggregates): the members in insertion order
JsonStringify(acc) == "{" \o Members(acc, 1) \o "}"

\* generateProofDigest(aggregates): `0x${sha256(JSON.stringify(aggregates))}`
GenerateProofDigest(acc) == [prefix |-> "0x", sha256 |-> JsonStringify(acc)]

ProofInit ==
    /\ origins = {OriginA, OriginB}
    /\ fheKeys = {[originId |-> "A", isActive |-> "true"]}
    /\ encryptedEvents = <<>>
    /\ sseClients = [o \in OriginIds |-> NoEntry]
    /\ reqs = [r \in Reqs |-> NewReq]
    /\ conns = [c \in Conns |-> NewConn]
    /\ queryPc = "idle"
    /\ queryRes = <<>>
    /\ aggregates = <<>>
    /\ proofs = <<>>

\* a total is stored: one row for a metric of a day
StoreAggregate ==
    /\ Len(aggregates) < MaxAggregates
    /\ \E row \in AggregateRows :
         /\ \A i \in 1..Len(aggregates) :
              aggregates[i].day # row.day \/ aggregates[i].metric # row.metric
         /\ aggregates' = CreateAggregate(aggregates, row)
    /\ UNCHANGED <<queryPc, queryRes, proofs, codecVars, agentVars, serverVars, adminVars, chainVars, hookVars>>

\* POST /api/proofs/:originId with {day}
\* history: seen is the set of rows the store returned
GenerateProof ==
    /\ Len(proofs) < MaxProofs
    /\ \E day \in Days, dbOk \in BOOLEAN, rows \in Physical(aggregates) :
         IF dbOk
         THEN LET found == GetAggregatesByDay(rows, "A", day)
                  aggregateData == AggregateData(found, 1, <<>>)
              IN  proofs' = Append(proofs,
                      [status |-> 200, day |-> day,
                       seen |-> {found[i] : i \in 1..Len(found)},
                       digest |-> GenerateProofDigest(aggregateData),
                       aggregates |-> aggregateData])
         ELSE proofs' = Append(proofs,
                  [status |-> 500, day |-> day, seen |-> {},
                   digest |-> GenerateProofDigest(<<>>), aggregates |-> <<>>])
    /\ UNCHANGED <<queryPc, queryRes, aggregates, codecVars, agentVars, serverVars, adminVars, chainVars, hookVars>>

ProofNext == StoreAggregate \/ GenerateProof

-----------------------------------------------------------------------------
(* Origin administration: GET /api/demo/origin and DELETE /api/origins/:id *)
(* of server/routes.ts, and the demo origin branch of the serverless       *)
(* handler.  A call runs from one await to the next in one step; calls are *)
(* numbered in the order they arrive.                                      *)

MaxCalls == 3
Calls == 1..MaxCalls

demoOriginDomain == "demo.fhe-analytics.app"
demoOwnerAddress == "0x0000000000000000000000000000000000000000"

\* a row of origins
OriginRow(id, domain, ownerAddress, token) ==
    [id |-> id, domain |-> domain, ownerAddress |-> ownerAddress, token |-> token]

\* the id the table gives the origin that call c inserts, and
\* generateOriginToken() in call c: both fresh
NewId(c) == "demo-" \o ToString(c)
NewToken(c) == "fhe_sk_" \o ToString(c)

AdminOriginIds == {"A", "B"} \cup {NewId(c) : c \in Calls}

NewCall == [op |-> "none", pc |-> "idle", serverless |-> FALSE, id |-> "",
            status |-> 0, origin |-> <<>>]

\* the events stored before the calls
AdminEvents ==
    WithIds(<<StoredRow("A", 1, "/a", "pageview", 1),
              StoredRow("B", 1, "/a", "pageview", 1),
              StoredRow("A", 2, "/b", "session", 1)>>)

AdminInit ==
    /\ origins = {OriginRow("A", "a.example", "0xa", "fhe_sk_a"),
                  OriginRow("B", "b.example", "0xb", "fhe_sk_b")}
    /\ fheKeys = {[originId |-> "A", isActive |-> "true"],
                  [originId |-> "B", isActive |-> "true"]}
    /\ roles = {[originId |-> "A", address |-> "0xa", role |-> "owner"],
                [originId |-> "B", address |-> "0xb", role |-> "owner"]}
    /\ encryptedEvents = AdminEvents
    /\ sseClients = [o \in OriginIds |-> NoEntry]
    /\ reqs = [r \in Reqs |-> NewReq]
    /\ conns = [c \in Conns |-> NewConn]
    /\ admin = [c \in Calls |-> NewCall]

\* const [origin] = select ... where id = :id
GetOriginById(id) == {o \in origins : o.id = id}

\* select ... where ownerAddress = :ownerAddress
GetOriginsByOwner(ownerAddress) == {o \in origins : o.ownerAddress = ownerAddress}

\* a delete whose where clause matches no row
DeleteOriginNoRow(rows, id) == rows

\* delete from origins where id = :id
DeleteOrigin(rows, id) == {o \in rows : o.id # id}

\* the rows of a dependent table that the delete of origin id leaves
CascadeSet(rows, id) == {x \in rows : x.originId # id}
CascadeSeq(rows, id) == SelectSeq(rows, LAMBDA x : x.originId # id)

\* an insert into a dependent table names an origin that exists
ForeignKeyOk(originId) == \E o \in origins : o.id = originId

\* the next call to arrive
Arrives(c) == admin[c].op = "none" /\ \A d \in 1..(c - 1) : admin[d].op # "none"

Answer(c, status, origin) ==
    [admin EXCEPT ![c].pc = "done", ![c].status = status, ![c].origin = origin]

\* GET /api/demo/origin up to its first store call: the lookup of the demo
\* origin (by owner and then domain, or by domain in the serverless handler)
DemoLookup(c) ==
    /\ Arrives(c)
    /\ \E serverless \in BOOLEAN :
         LET found == IF serverless
                      THEN {o \in origins : o.domain = demoOriginDomain}
                      ELSE {o \in GetOriginsByOwner(demoOwnerAddress) :
                               o.domain = demoOriginDomain}
             call  == [NewCall EXCEPT !.op = "demo", !.serverless = serverless]
         IN  IF found = {}
             THEN admin' = [admin EXCEPT ![c] = [call EXCEPT !.pc = "createOrigin"]]
             ELSE \E o \in found :
                    admin' = [admin EXCEPT ![c] =
                                 [call EXCEPT !.pc = "done", !.status = 200,
                                              !.id = o.id, !.origin = <<o>>]]
    /\ UNCHANGED <<codecVars, agentVars, serverVars, queryVars, roles, chainVars, hookVars>>

\* demoOrigin = await storage.createOrigin({domain, ownerAddress, token})
DemoCreateOrigin(c) ==
    /\ admin[c].op = "demo" /\ admin[c].pc = "createOrigin"
    /\ LET o == OriginRow(NewId(c), demoOriginDomain, demoOwnerAddress, NewToken(c))
       IN  /\ origins' = origins \cup {o}
           /\ admin' = [admin EXCEPT ![c].pc = "createFheKey", ![c].id = o.id,
                                     ![c].origin = <<o>>]
    /\ UNCHANGED <<codecVars, agentVars, queryVars, roles, fheKeys, encryptedEvents,
                   sseClients, reqs, conns, chainVars, hookVars>>

\* await storage.createFheKey({originId: demoOrigin.id, ..., isActive: 'true'});
\* the serverless handler answers after it
DemoCreateFheKey(c) ==
    /\ admin[c].op = "demo" /\ admin[c].pc = "createFheKey"
    /\ IF ForeignKeyOk(admin[c].id)
       THEN /\ fheKeys' = fheKeys \cup {[originId |-> admin[c].id, isActive |-> "true"]}
            /\ admin' = IF admin[c].serverless
                        THEN Answer(c, 200, admin[c].origin)
                        ELSE [admin EXCEPT ![c].pc = "createRole"]
       ELSE /\ fheKeys' = fheKeys
            /\ admin' = Answer(c, 500, <<>>)
    /\ UNCHANGED <<codecVars, agentVars, queryVars, roles, origins, encryptedEvents,
                   sseClients, reqs, conns, chainVars, hookVars>>

\* await storage.createRole({originId: demoOrigin.id, ..., role: 'owner'});
\* res.json({origin: demoOrigin, token: demoOrigin.token})
DemoCreateRole(c) ==
    /\ admin[c].op = "demo" /\ admin[c].pc = "createRole"
    /\ IF ForeignKeyOk(admin[c].id)
       THEN /\ roles' = roles \cup {[originId |-> admin[c].id,
                                     address |-> demoOwnerAddress, role |-> "owner"]}
            /\ admin' = Answer(c, 200, admin[c].origin)
       ELSE /\ roles' = roles
            /\ admin' = Answer(c, 500, <<>>)
    /\ UNCHANGED <<codecVars, agentVars, serverVars, queryVars, chainVars, hookVars>>

\* POST /api/origins up to its second store call: the body is parsed and
\* storage.createOrigin({...body, token}) runs, or throws (answer 400)
RegisterCreateOrigin(c) ==
    /\ Arrives(c)
    /\ \E dbOk \in BOOLEAN :
         LET o    == OriginRow(NewId(c), "c.example", "0xc", NewToken(c))
             call == [NewCall EXCEPT !.op = "register"]
         IN  IF dbOk
             THEN /\ origins' = origins \cup {o}
                  /\ admin' = [admin EXCEPT ![c] =
                                  [call EXCEPT !.pc = "createFheKey", !.id = o.id,
                                               !.origin = <<o>>]]
             ELSE /\ origins' = origins
                  /\ admin' = [admin EXCEPT ![c] =
                                  [call EXCEPT !.pc = "done", !.status = 400]]
    /\ UNCHANGED <<codecVars, agentVars, queryVars, roles, fheKeys, encryptedEvents,
                   sseClients, reqs, conns, chainVars, hookVars>>

\* await storage.createFheKey({originId: origin.id, ..., isActive: 'true'}),
\* or the call throws and the catch answers 400
RegisterCreateFheKey(c) ==
    /\ admin[c].op = "register" /\ admin[c].pc = "createFheKey"
    /\ \E dbOk \in BOOLEAN :
         IF dbOk /\ ForeignKeyOk(admin[c].id)
         THEN /\ fheKeys' = fheKeys \cup {[originId |-> admin[c].id, isActive |-> "true"]}
              /\ admin' = [admin EXCEPT ![c].pc = "createRole"]
         ELSE /\ fheKeys' = fheKeys
              /\ admin' = Answer(c, 400, <<>>)
    /\ UNCHANGED <<codecVars, agentVars, queryVars, roles, origins, encryptedEvents,
                   sseClients, reqs, conns, chainVars, hookVars>>

\* await storage.createRole({originId: origin.id, ..., role: 'owner'});
\* res.json({origin, token, publicKeyFingerprint}), or the call throws and
\* the catch answers 400
RegisterCreateRole(c) ==
    /\ admin[c].op = "register" /\ admin[c].pc = "createRole"
    /\ \E dbOk \in BOOLEAN :
         IF dbOk /\ ForeignKeyOk(admin[c].id)
         THEN /\ roles' = roles \cup {[originId |-> admin[c].id,
                                       address |-> "0xc", role |-> "owner"]}
              /\ admin' = Answer(c, 200, admin[c].origin)
         ELSE /\ roles' = roles
              /\ admin' = Answer(c, 400, <<>>)
    /\ UNCHANGED <<codecVars, agentVars, serverVars, queryVars, chainVars, hookVars>>

\* the body a collect call posts, and the tokens it may carry
CollectBody == [timestamp |-> Fin(3), page |-> "/a", eventType |-> "pageview",
                value |-> Undef]
CollectTokens == {"fhe_sk_a", "fhe_sk_unknown"}

\* POST /api/collect up to its second store call: the body is parsed and
\* getOriginByToken runs; 401 when no origin has the token
CollectLookup(c) ==
    /\ Arrives(c)
    /\ \E token \in CollectTokens :
         LET origin == GetOriginByToken(token)
             call   == [NewCall EXCEPT !.op = "collect"]
         IN  admin' = [admin EXCEPT ![c] =
                          IF origin = NoOrigin
                          THEN [call EXCEPT !.pc = "done", !.status = 401]
                          ELSE [call EXCEPT !.pc = "getActiveKey", !.id = origin.id]]
    /\ UNCHANGED <<codecVars, agentVars, serverVars, queryVars, roles, chainVars, hookVars>>

\* const key = await storage.getActiveKey(origin.id); 500 when there is none
CollectKey(c) ==
    /\ admin[c].op = "collect" /\ admin[c].pc = "getActiveKey"
    /\ admin' = IF HasActiveKey(admin[c].id)
                THEN [admin EXCEPT ![c].pc = "createEncryptedEvent"]
                ELSE Answer(c, 500, <<>>)
    /\ UNCHANGED <<codecVars, agentVars, serverVars, queryVars, roles, chainVars, hookVars>>

\* await storage.createEncryptedEvent({originId: origin.id, ...}) and the 202
\* answer, or the insert throws on its foreign key and the catch answers 400
CollectInsert(c) ==
    /\ admin[c].op = "collect" /\ admin[c].pc = "createEncryptedEvent"
    /\ IF ForeignKeyOk(admin[c].id)
       THEN /\ encryptedEvents' =
                 CreateEncryptedEvent(encryptedEvents,
                     EventRow(Len(AdminEvents) + c, admin[c].id, CollectBody, Now))
            /\ admin' = Answer(c, 202, <<>>)
       ELSE /\ encryptedEvents' = encryptedEvents
            /\ admin' = Answer(c, 400, <<>>)
    /\ UNCHANGED <<codecVars, agentVars, queryVars, roles, origins, fheKeys,
                   sseClients, reqs, conns, chainVars, hookVars>>

\* DELETE /api/origins/:id up to its first store call: getOriginById, and
\* 404 when there is no such origin
DeleteLookup(c) ==
    /\ Arrives(c)
    /\ \E id \in AdminOriginIds :
         LET call == [NewCall EXCEPT !.op = "delete", !.id = id]
         IN  admin' = [admin EXCEPT ![c] =
                          IF GetOriginById(id) = {}
                          THEN [call EXCEPT !.pc = "done", !.status = 404]
                          ELSE [call EXCEPT !.pc = "deleteOrigin"]]
    /\ UNCHANGED <<codecVars, agentVars, serverVars, queryVars, roles, chainVars, hookVars>>

\* await storage.deleteOrigin(id), which removes the origin and, by the
\* foreign keys of the dependent tables, its keys, roles and events;
\* res.json({success: true}), or 500 when the store call throws
DeleteDelete(c) ==
    /\ admin[c].op = "delete" /\ admin[c].pc = "deleteOrigin"
    /\ \E dbOk \in BOOLEAN :
         IF dbOk
         THEN /\ origins' = DeleteOrigin(origins, admin[c].id)
              /\ fheKeys' = CascadeSet(fheKeys, admin[c].id)
              /\ roles' = CascadeSet(roles, admin[c].id)
              /\ encryptedEvents' = CascadeSeq(encryptedEvents, admin[c].id)
              /\ admin' = Answer(c, 200, <<>>)
         ELSE /\ UNCHANGED <<origins, fheKeys, roles, encryptedEvents>>
              /\ admin' = Answer(c, 500, <<>>)
    /\ UNCHANGED <<codecVars, agentVars, queryVars, sseClients, reqs, conns, chainVars, hookVars>>

AdminNext ==
    \E c \in Calls :
        \/ DemoLookup(c) \/ DemoCreateOrigin(c) \/ DemoCreateFheKey(c)
        \/ DemoCreateRole(c) \/ DeleteLookup(c) \/ DeleteDelete(c)
        \/ RegisterCreateOrigin(c) \/ RegisterCreateFheKey(c) \/ RegisterCreateRole(c)
        \/ CollectLookup(c) \/ CollectKey(c) \/ CollectInsert(c)

-----------------------------------------------------------------------------
(* ProofRegistry: contracts/ProofRegistry.sol.  Every transaction is mined *)
(* in a block of its own; a call whose require fails reverts and leaves    *)
(* the storage as it was.                                                  *)

MaxBlocks == 4      \* blocks mined in a run

ZeroAddress == "0x0"
Addresses == {ZeroAddress, "0xa", "0xb"}
Senders == Addresses \ {ZeroAddress}     \* msg.sender of a transaction
ChainOrigins == {"A", "B"}
ChainDays == {1, 2}
Digests == {"0x11", "0x22"}
Cids == {"Qm1"}
ProofKeys == ChainOrigins \X ChainDays

\* a storage slot never written: every field zero
ZeroProof == [digest |-> "0x00", timestamp |-> 0, ipfsCid |-> "", origin |-> ZeroAddress,
              blockNumber |-> 0]

\* block.timestamp of block n: positive, and later in later blocks
BlockTimestamp(n) == 12 * n

\* a registerOrigin without its first require
RegisterOriginAgain(owners, originId, owner) ==
    IF owner = ZeroAddress THEN [reverted |-> TRUE, owners |-> owners]
    ELSE [reverted |-> FALSE, owners |-> [owners EXCEPT ![originId] = owner]]

\* registerOrigin(originId, owner)
RegisterOriginCall(owners, originId, owner) ==
    IF owners[originId] # ZeroAddress THEN [reverted |-> TRUE, owners |-> owners]
    ELSE IF owner = ZeroAddress THEN [reverted |-> TRUE, owners |-> owners]
    ELSE [reverted |-> FALSE, owners |-> [owners EXCEPT ![originId] = owner]]

\* an anchorProof without its third require
AnchorProofOverwrite(owners, stored, sender, originId, day, digest, ipfsCid, number) ==
    LET owner == owners[originId]
    IN  IF owner = ZeroAddress THEN [reverted |-> TRUE, proofs |-> stored]
        ELSE IF sender # owner THEN [reverted |-> TRUE, proofs |-> stored]
        ELSE [reverted |-> FALSE,
              proofs |-> [stored EXCEPT ![<<originId, day>>] =
                             [digest |-> digest, timestamp |-> BlockTimestamp(number),
                              ipfsCid |-> ipfsCid, origin |-> owner,
                              blockNumber |-> number]]]

\* anchorProof(originId, day, digest, ipfsCid) sent by sender in block number
AnchorProofCall(owners, stored, sender, originId, day, digest, ipfsCid, number) ==
    LET owner == owners[originId]
    IN  IF owner = ZeroAddress THEN [reverted |-> TRUE, proofs |-> stored]
        ELSE IF sender # owner THEN [reverted |-> TRUE, proofs |-> stored]
        ELSE IF stored[<<originId, day>>].timestamp # 0
             THEN [reverted |-> TRUE, proofs |-> stored]
        ELSE [reverted |-> FALSE,
              proofs |-> [stored EXCEPT ![<<originId, day>>] =
                             [digest |-> digest, timestamp |-> BlockTimestamp(number),
                              ipfsCid |-> ipfsCid, origin |-> owner,
                              blockNumber |-> number]]]

\* verifyProof(originId, day)
VerifyProofCall(stored, originId, day) ==
    LET proof == stored[<<originId, day>>]
    IN  [exists |-> proof.timestamp > 0, digest |-> proof.digest, ipfsCid |-> proof.ipfsCid]

NoCall == [fn |-> "none", sender |-> ZeroAddress, originId |-> "", day |-> 0,
           reverted |-> FALSE, returned |-> <<>>]

ChainIdle ==
    /\ originOwners = [o \in ChainOrigins |-> ZeroAddress]
    /\ chainProofs = [k \in ProofKeys |-> ZeroProof]
    /\ blockNumber = 1
    /\ lastCall = NoCall

ChainInit == ChainIdle

\* a transaction calling registerOrigin
RegisterOrigin ==
    /\ blockNumber <= MaxBlocks
    /\ \E sender \in Senders, originId \in ChainOrigins, owner \in Addresses :
         LET out == RegisterOriginCall(originOwners, originId, owner)
         IN  /\ originOwners' = out.owners
             /\ lastCall' = [NoCall EXCEPT !.fn = "registerOrigin", !.sender = sender,
                                !.originId = originId, !.reverted = out.reverted]
    /\ blockNumber' = blockNumber + 1
    /\ UNCHANGED <<chainProofs, codecVars, agentVars, serverVars, queryVars, adminVars, hookVars>>

\* a transaction calling anchorProof
AnchorProof ==
    /\ blockNumber <= MaxBlocks
    /\ \E sender \in Senders, originId \in ChainOrigins, day \in ChainDays,
          digest \in Digests, ipfsCid \in Cids :
         LET out == AnchorProofCall(originOwners, chainProofs, sender, originId, day,
                                    digest, ipfsCid, blockNumber)
         IN  /\ chainProofs' = out.proofs
             /\ lastCall' = [NoCall EXCEPT !.fn = "anchorProof", !.sender = sender,
                                !.originId = originId, !.day = day,
                                !.reverted = out.reverted]
    /\ blockNumber' = blockNumber + 1
    /\ UNCHANGED <<originOwners, codecVars, agentVars, serverVars, queryVars, adminVars, hookVars>>

\* a call of the view function verifyProof
VerifyProof ==
    /\ \E originId \in ChainOrigins, day \in ChainDays :
         lastCall' = [NoCall EXCEPT !.fn = "verifyProof", !.originId = originId, !.day = day,
                         !.returned = <<VerifyProofCall(chainProofs, originId, day)>>]
    /\ UNCHANGED <<originOwners, chainProofs, blockNumber,
                   codecVars, agentVars, serverVars, queryVars, adminVars, hookVars>>

ChainNext == RegisterOrigin \/ AnchorProof \/ VerifyProof

-----------------------------------------------------------------------------
(* The live-update effect of useMetrics (client/src/App.tsx).  Each run of *)
(* the effect has its own closure (eventSource, reconnectTimeout,          *)
(* isMounted); React runs the cleanup of the previous run before the next  *)
(* run and on unmount.  The browser delivers an error event only to an     *)
(* EventSource that is not closed, and runs a timeout's callback only if   *)
(* the timeout was not cleared.  The URL of the stream always parses, so   *)
(* the EventSource constructor does not throw.                             *)

MaxEffects == 2
MaxSources == 3
MaxTimeouts == 2
MaxHookTime == 6000

\* setTimeout(..., 3000)
ReconnectDelay == 3000

\* the clock is read three times per reconnect delay
TimeStep == ReconnectDelay \div 3

HookOrigins == {"o1", "o2"}

\* the originId argument of the hook: "" is an absent originId
HookOriginIds == HookOrigins \cup {""}

StreamUrl(originId) == "/api/metrics/" \o originId \o "/stream"

HookState == [effects |-> effects, eventSources |-> eventSources, timeouts |-> timeouts]

\* connect(): a new EventSource, kept in the closure's eventSource
Connect(h, e, by, now) ==
    LET id == Len(h.eventSources) + 1
    IN  [h EXCEPT !.eventSources = Append(@, [effect |-> e,
                                              url |-> StreamUrl(h.effects[e].originId),
                                              open |-> TRUE, by |-> by, at |-> now]),
                  !.effects[e].eventSource = id]

\* eventSource.onerror, run for an error event of EventSource target
OnError(h, target, now) ==
    LET e == h.eventSources[target].effect
        es == h.effects[e].eventSource
        closed == IF es # 0
                  THEN [h EXCEPT !.eventSources[es].open = FALSE,
                                 !.effects[e].eventSource = 0]
                  ELSE h
        id == Len(h.timeouts) + 1
    IN  IF closed.effects[e].isMounted
        THEN [closed EXCEPT !.timeouts = Append(@, [effect |-> e, after |-> target,
                                                    armed |-> now,
                                                    due |-> now + ReconnectDelay,
                                                    state |-> "pending"]),
                            !.effects[e].reconnectTimeout = id]
        ELSE closed

\* the callback of the reconnect timeout
Reconnect(h, t, now) ==
    LET e == h.timeouts[t].effect
        fired == [h EXCEPT !.timeouts[t].state = "fired"]
    IN  IF fired.effects[e].isMounted THEN Connect(fired, e, t, now) ELSE fired

\* clearTimeout(id): a timeout that ran already stays as it is
ClearReconnectTimeout(h, t) ==
    IF h.timeouts[t].state = "pending" THEN [h EXCEPT !.timeouts[t].state = "cleared"] ELSE h

\* the cleanup of effect run e that forgets its timeout
CleanupKeepsTimeout(h, e) ==
    LET unmounted == [h EXCEPT !.effects[e].isMounted = FALSE]
        es == h.effects[e].eventSource
    IN  IF es # 0 THEN [unmounted EXCEPT !.eventSources[es].open = FALSE] ELSE unmounted

\* the cleanup function returned by effect run e
Cleanup(h, e) ==
    LET unmounted == [h EXCEPT !.effects[e].isMounted = FALSE]
        t == h.effects[e].reconnectTimeout
        cleared == IF t # 0 THEN ClearReconnectTimeout(unmounted, t) ELSE unmounted
        es == h.effects[e].eventSource
    IN  IF es # 0 THEN [cleared EXCEPT !.eventSources[es].open = FALSE] ELSE cleared

\* the effect body, run for originId: nothing for an absent originId
RunEffect(h, originId, now) ==
    IF originId = "" THEN h
    ELSE LET e == Len(h.effects) + 1
             closure == [originId |-> originId, eventSource |-> 0,
                         reconnectTimeout |-> 0, isMounted |-> TRUE]
         IN  Connect([h EXCEPT !.effects = Append(@, closure)], e, 0, now)

SetHookState(h) ==
    /\ effects' = h.effects
    /\ eventSources' = h.eventSources
    /\ timeouts' = h.timeouts

HookIdle ==
    /\ hook = [mounted |-> FALSE, originId |-> "", effect |-> 0]
    /\ effects = <<>>
    /\ eventSources = <<>>
    /\ timeouts = <<>>
    /\ hookNow = 0

HookInit == HookIdle

\* the component using the hook mounts: the effect runs
Mount ==
    /\ ~hook.mounted
    /\ Len(effects) < MaxEffects
    /\ Len(eventSources) < MaxSources
    /\ \E originId \in HookOriginIds :
         /\ SetHookState(RunEffect(HookState, originId, hookNow))
         /\ hook' = [mounted |-> TRUE, originId |-> originId,
                     effect |-> IF originId = "" THEN 0 ELSE Len(effects) + 1]
    /\ UNCHANGED <<hookNow, codecVars, agentVars, serverVars, queryVars, adminVars, chainVars>>

\* a render with another originId: the cleanup of the last run, then the effect
Rerender ==
    /\ hook.mounted
    /\ Len(effects) < MaxEffects
    /\ Len(eventSources) < MaxSources
    /\ \E originId \in HookOriginIds \ {hook.originId} :
         LET cleaned == IF hook.effect # 0 THEN Cleanup(HookState, hook.effect)
                        ELSE HookState
         IN  /\ SetHookState(RunEffect(cleaned, originId, hookNow))
             /\ hook' = [mounted |-> TRUE, originId |-> originId,
                         effect |-> IF originId = "" THEN 0 ELSE Len(effects) + 1]
    /\ UNCHANGED <<hookNow, codecVars, agentVars, serverVars, queryVars, adminVars, chainVars>>

\* the component unmounts: the cleanup of the last run
Unmount ==
    /\ hook.mounted
    /\ SetHookState(IF hook.effect # 0 THEN Cleanup(HookState, hook.effect) ELSE HookState)
    /\ hook' = [mounted |-> FALSE, originId |-> "", effect |-> 0]
    /\ UNCHANGED <<hookNow, codecVars, agentVars, serverVars, queryVars, adminVars, chainVars>>

\* the browser fires an error event at an EventSource that is not closed
ErrorEvent ==
    /\ Len(timeouts) < MaxTimeouts
    /\ \E target \in 1..Len(eventSources) :
         /\ eventSources[target].open
         /\ SetHookState(OnError(HookState, target, hookNow))
    /\ UNCHANGED <<hook, hookNow, codecVars, agentVars, serverVars, queryVars, adminVars, chainVars>>

\* a reconnect timeout comes due
TimeoutFire ==
    /\ Len(eventSources) < MaxSources
    /\ \E t \in 1..Len(timeouts) :
         /\ timeouts[t].state = "pending"
         /\ timeouts[t].due = hookNow
         /\ SetHookState(Reconnect(HookState, t, hookNow))
    /\ UNCHANGED <<hook, hookNow, codecVars, agentVars, serverVars, queryVars, adminVars, chainVars>>

\* time passes, up to the next timeout that is due
HookTick ==
    /\ hookNow + TimeStep <= MaxHookTime
    /\ \A t \in 1..Len(timeouts) :
         timeouts[t].state = "pending" => timeouts[t].due > hookNow
    /\ hookNow' = hookNow + TimeStep
    /\ UNCHANGED <<hook, effects, eventSources, timeouts,
                   codecVars, agentVars, serverVars, queryVars, adminVars, chainVars>>

HookNext == Mount \/ Rerender \/ Unmount \/ ErrorEvent \/ TimeoutFire \/ HookTick

-----------------------------------------------------------------------------
(* Specifications.                                                         *)

(* Each specification starts the part it runs from its initial states and *)
(* holds the other parts still.                                            *)

CodecIdle == codecIn = <<>> /\ codecPc = "input" /\ codecBlobs = <<>>
             /\ codecAgg = ZeroCipher /\ codecOut = Fin(0)
ServerIdle == ServerInit
QueryIdle == queryPc = "idle" /\ queryRes = <<>> /\ aggregates = <<>> /\ proofs = <<>>
AdminIdle == roles = {} /\ admin = <<>>

CodecSpecInit == CodecInit /\ AgentInit /\ ServerIdle /\ QueryIdle /\ AdminIdle /\ ChainIdle /\ HookIdle
CodecSpec == CodecSpecInit /\ [][CodecNext]_vars

AgentSpecInit == CodecIdle /\ AgentInit /\ ServerIdle /\ QueryIdle /\ AdminIdle /\ ChainIdle /\ HookIdle
AgentSpec == AgentSpecInit /\ [][AgentNext]_vars

\* Every fetch settles, every armed timer fires when due, and time passes.
DeliverySpec ==
    /\ AgentSpecInit
    /\ [][DeliveryNext]_vars
    /\ WF_vars(Tick)
    /\ WF_vars(BatchTimerFire)
    /\ \A e \in 1..MaxSent :
         /\ WF_vars(ResponseOk(e) \/ ResponseFail(e))
         /\ WF_vars(RetryTimerFire(e))

ServerSpecInit == CodecIdle /\ AgentInit /\ ServerInit /\ QueryIdle /\ AdminIdle /\ ChainIdle /\ HookIdle
ServerSpec == ServerSpecInit /\ [][ServerNext]_vars

ProofSpecInit == CodecIdle /\ AgentInit /\ ProofInit /\ AdminIdle /\ ChainIdle /\ HookIdle
ProofSpec == ProofSpecInit /\ [][ProofNext]_vars

PipelineSpec == ServerSpecInit /\ [][PipelineNext]_vars

ContractSpecInit == CodecIdle /\ AgentInit /\ ContractInit /\ QueryIdle /\ ChainIdle /\ HookIdle
ContractSpec == ContractSpecInit /\ [][ContractNext]_vars

QuerySpecInit == CodecIdle /\ AgentInit /\ QueryInit /\ AdminIdle /\ ChainIdle /\ HookIdle
QuerySpec == QuerySpecInit /\ [][QueryNext]_vars

AdminSpecInit == CodecIdle /\ AgentInit /\ QueryIdle /\ AdminInit /\ ChainIdle /\ HookIdle
AdminSpec == AdminSpecInit /\ [][AdminNext]_vars

ChainSpecInit == CodecIdle /\ AgentInit /\ ServerIdle /\ QueryIdle /\ AdminIdle /\ ChainInit /\ HookIdle
ChainSpec == ChainSpecInit /\ [][ChainNext]_vars

HookSpecInit == CodecIdle /\ AgentInit /\ ServerIdle /\ QueryIdle /\ AdminIdle /\ ChainIdle /\ HookInit
HookSpec == HookSpecInit /\ [][HookNext]_vars

-----------------------------------------------------------------------------
(* Claims about the codec, checked under CodecSpec.                        *)

\* v1 + ... + vN as JavaScript computes it, left to right
RECURSIVE JsSum(_, _)
JsSum(vs, n) == IF n = 0 THEN Fin(0) ELSE JsAdd(JsSum(vs, n - 1), vs[n])

\* v1 + ... + vN of finite numbers, as an integer
RECURSIVE IntSum(_, _)
IntSum(vs, n) == IF n = 0 THEN 0 ELSE IntSum(vs, n - 1) + vs[n].n

AllFinite(vs) == \A i \in 1..Len(vs) : IsFinite(vs[i])

\* C4 as stated: for every sequence of numbers, decrypting the homomorphic
\* sum (or, for two blobs, the homomorphic add) of their encryptions gives
\* v1 + ... + vN.
C4_HomomorphismAnyNumber ==
    codecPc = "decoded" => codecOut = JsSum(codecIn, Len(codecIn))

\* C4 as amended: for every sequence of finite numbers, decrypting the
\* homomorphic sum (or add) of their encryptions gives v1 + ... + vN.
C4_HomomorphismFinite ==
    (codecPc = "decoded" /\ AllFinite(codecIn))
        => codecOut = Fin(IntSum(codecIn, Len(codecIn)))

C4_Witness ==
    /\ codecPc = "decoded"
    /\ Len(codecIn) = 3
    /\ AllFinite(codecIn)
    /\ \A i \in 1..3 : codecIn[i].n # 0
    /\ codecOut = Fin(IntSum(codecIn, 3))
    /\ codecOut.n # 0

-----------------------------------------------------------------------------
(* Claims about the batching agent, checked under AgentSpec.               *)

NoTimerPending == DOMAIN timers = {}

\* C1: a queueEvent call that brings the queue to batchSize events flushes
\* exactly once, dispatching the whole queue and leaving no timer pending; a
\* queueEvent call that leaves the queue shorter flushes nothing and leaves
\* one timer armed with the full batchTimeout; the timer fires only after
\* batchTimeout ms without a queueEvent call and then flushes exactly once,
\* dispatching the whole queue; the passing of time alone flushes nothing.
C1_FlushOncePerTrigger ==
    [][ /\ (lastOp' = "queueEvent" /\ Len(eventQueue) + 1 = batchSize)
            => /\ batches' = Append(batches, Append(eventQueue, tracked'))
               /\ eventQueue' = <<>>
               /\ NoTimerPending'
               /\ \A e \in 1..tracked' : e \in DOMAIN delivery'
        /\ (lastOp' = "queueEvent" /\ Len(eventQueue) + 1 < batchSize)
            => /\ batches' = batches
               /\ eventQueue' = Append(eventQueue, tracked')
               /\ Cardinality(DOMAIN timers') = 1
               /\ \A h \in DOMAIN timers' : timers'[h] = batchTimeout /\ batchTimer' = h
        /\ (lastOp' = "queueEvent") => Len(eventQueue) < batchSize
        /\ (lastOp' = "timer")
            => /\ idle = batchTimeout
               /\ eventQueue # <<>>
               /\ batches' = Append(batches, eventQueue)
               /\ eventQueue' = <<>>
               /\ NoTimerPending'
        /\ (lastOp' = "tick") => batches' = batches /\ eventQueue' = eventQueue
      ]_agentVars

C1_Witness ==
    /\ lastOp = "queueEvent"
    /\ tracked = batchSize
    /\ batches = << <<1, 2, 3, 4, 5>> >>
    /\ eventQueue = <<>>
    /\ NoTimerPending
    /\ batchTimer = 0

\* C12: the step of the visibilitychange listener (document hidden) and of
\* the beforeunload listener leaves the queue empty and no batch timer
\* pending, and has every event that was queued dispatched, as a first
\* attempt with the keep-alive flag; no tracked event is left undispatched.
C12_ForcedFlush ==
    [][lastOp' \in {"hidden", "unload"}
         => /\ eventQueue' = <<>>
            /\ NoTimerPending'
            /\ \A i \in 1..Len(eventQueue) :
                 /\ eventQueue[i] \notin DOMAIN delivery
                 /\ eventQueue[i] \in DOMAIN delivery'
                 /\ delivery'[eventQueue[i]].keepalive
                 /\ delivery'[eventQueue[i]].st = "inflight"
                 /\ delivery'[eventQueue[i]].attempt = 1
            /\ \A e \in 1..tracked : e \in DOMAIN delivery'
            /\ (eventQueue # <<>> => batches' = Append(batches, eventQueue))]_vars

C12_Witness ==
    /\ lastOp = "unload"
    /\ tracked = 3
    /\ batches = << <<1, 2, 3>> >>
    /\ eventQueue = <<>>
    /\ NoTimerPending
    /\ \A e \in 1..3 : e \in DOMAIN delivery /\ delivery[e].keepalive

Settled(e) == e \in DOMAIN delivery /\ delivery[e].st \in {"success", "dropped"}

RECURSIVE Drained(_)
Drained(bs) == IF bs = <<>> THEN <<>> ELSE Head(bs) \o Drained(Tail(bs))

\* C21: the events handed to sendEvent so far, flush after flush, followed
\* by the events still queued, are the tracked events 1..tracked, each
\* once and in order: no event is lost, none is in two flushes, and the
\* dispatched events are just the drained ones, each on its first attempt.
\* A step that flushes drains the whole queue (with the event being
\* queued), leaves the queue empty and leaves no timer pending.
C21_FlushDrainsOnce ==
    /\ [](/\ Drained(batches) \o eventQueue = [i \in 1..tracked |-> i]
          /\ DOMAIN delivery = {Drained(batches)[i] : i \in 1..Len(Drained(batches))}
          /\ \A e \in DOMAIN delivery :
               delivery[e].attempt = 1 /\ delivery[e].st = "inflight")
    /\ [][batches' # batches
            => /\ \E events \in {eventQueue, Append(eventQueue, tracked')} :
                    events # <<>> /\ batches' = Append(batches, events)
               /\ eventQueue' = <<>>
               /\ NoTimerPending'
               /\ batchTimer' = 0]_vars

C21_Witness ==
    /\ batches = << <<1, 2, 3, 4, 5>>, <<6>> >>
    /\ tracked = 6
    /\ eventQueue = <<>>
    /\ NoTimerPending
    /\ DOMAIN delivery = 1..6

\* C22: at most one flush timer is pending, and the batchTimer field holds
\* its handle; while one is pending the queue holds 1 to batchSize - 1
\* events; while the queue is empty none is pending; the queue never holds
\* batchSize events or more.
C22_OneTimerBoundedQueue ==
    /\ Cardinality(DOMAIN timers) <= 1
    /\ \A h \in DOMAIN timers : batchTimer = h
    /\ ~NoTimerPending => Len(eventQueue) \in 1..(batchSize - 1)
    /\ eventQueue = <<>> => NoTimerPending
    /\ Len(eventQueue) < batchSize

C22_Witness ==
    /\ Len(eventQueue) = batchSize - 1
    /\ Cardinality(DOMAIN timers) = 1
    /\ batches # <<>>
    /\ lastOp = "tick"

\* the delivery of event e moved on: its POST settled or its retry fired
Moved(e) ==
    \/ delivery'[e].st # delivery[e].st
    \/ delivery'[e].attempt # delivery[e].attempt

\* C28: the delivery of each drained event is its own chain: a step in
\* which the POST of one event settles (success, failure, drop) or its retry
\* fires leaves the state, the armed delay and the attempt counter of every
\* other event as they were, whether drained by the same flush or another;
\* a flush leaves the chains of earlier events as they were; and an attempt
\* counter only ever grows by one, in a retry of its own event.
C28_DeliveryPerEvent ==
    [][/\ \A e \in DOMAIN delivery :
            Moved(e) => /\ \A f \in DOMAIN delivery \ {e} : delivery'[f] = delivery[f]
                        /\ DOMAIN delivery' = DOMAIN delivery
       /\ \A e \in DOMAIN delivery :
            /\ e \in DOMAIN delivery'
            /\ delivery'[e].attempt \in {delivery[e].attempt, delivery[e].attempt + 1}
            /\ delivery'[e].attempt # delivery[e].attempt
                 => delivery[e].st = "waiting" /\ delivery'[e].st = "inflight"
            /\ DOMAIN delivery' # DOMAIN delivery => delivery'[e] = delivery[e]]_vars

C28_Witness ==
    /\ batches = <<<<1, 2>>>>
    /\ delivery[1].st = "dropped" /\ delivery[1].attempt = retryAttempts
    /\ delivery[2].st = "success" /\ delivery[2].attempt = 1
-----------------------------------------------------------------------------
(* Claims about the collection endpoint and the broker, checked under      *)
(* ServerSpec.                                                              *)

HasRow(r) == \E i \in 1..Len(encryptedEvents) : encryptedEvents[i].id = r
RowsOf(originId) == SelectSeq(encryptedEvents, LAMBDA e : e.originId = originId)
MetricsFrames(c) == SelectSeq(conns[c].frames, IsMetricsFrame)
Registered(c) == \E o \in OriginIds : c \in sseClients[o].clients
UnknownToken == "fhe_sk_unknown"

\* a request posted with the unknown token whose body passed the schema and
\* whose token lookup returned
UnknownTokenLookedUp(r) ==
    reqs[r].token = UnknownToken /\ reqs[r].why \notin {"schema", "store"}

C2_Rejected ==
    \A r \in Reqs : UnknownTokenLookedUp(r)
        => /\ reqs[r].status = 401
           /\ reqs[r].pc = "done"
           /\ reqs[r].scheduled = 0
           /\ reqs[r].published = 0
           /\ ~HasRow(r)

\* C2: a collect request whose token matches no origin is answered 401,
\* stores no event row and triggers no recompute and no broadcast: the
\* handler's step leaves the event store, the subscriber map and every
\* connection as they were.
C2_UnknownTokenRejected ==
    /\ []C2_Rejected
    /\ [][\A r \in Reqs :
            (reqs[r].pc = "new" /\ reqs'[r].token = UnknownToken)
                => /\ encryptedEvents' = encryptedEvents
                   /\ sseClients' = sseClients
                   /\ conns' = conns]_vars

C2_Witness ==
    \E r \in Reqs :
        /\ UnknownTokenLookedUp(r)
        /\ reqs[r].status = 401
        /\ encryptedEvents # <<>>
        /\ \E c \in Conns : conns[c].st = "open" /\ Registered(c)

\* the rows of originId are the row of one pageview posted with value
\* absent or 1
SinglePageview(originId) ==
    LET rows == RowsOf(originId)
    IN  /\ Len(rows) = 1
        /\ rows[1].eventType = "pageview"
        /\ reqs[rows[1].id].value \in {Undef, Fin(1)}

C3_AtMostOneFrame ==
    \A c \in Conns :
        (conns[c].st = "open" /\ SinglePageview(conns[c].originId))
            => LET mf == MetricsFrames(c)
               IN  /\ Len(mf) <= 1
                   /\ \A i \in 1..Len(mf) : mf[i].metrics[1].pageviews = Fin(1)

\* C3: when the only event of an origin is one accepted pageview (value
\* absent or 1), the publish that follows it writes to every subscriber of
\* the origin whose write does not throw exactly one metrics frame, with
\* pageviews = 1, right after the connection notice; no subscriber of the
\* origin ever holds more than that one metrics frame.
C3_SinglePageviewFrame ==
    /\ []C3_AtMostOneFrame
    /\ [][\A r \in Reqs :
            (reqs[r].pc = "publish" /\ reqs'[r].pc = "done"
                /\ SinglePageview(reqs[r].originId))
            => \A c \in sseClients[reqs[r].originId].clients :
                 \/ /\ conns'[c].frames = conns[c].frames
                    /\ c \notin sseClients'[reqs[r].originId].clients
                 \/ /\ conns[c].frames = <<ConnectedFrame(reqs[r].originId)>>
                    /\ Len(conns'[c].frames) = 2
                    /\ IsMetricsFrame(conns'[c].frames[2])
                    /\ conns'[c].frames[2].metrics[1].pageviews = Fin(1)]_vars

C3_Witness ==
    \E c \in Conns, r \in Reqs :
        /\ conns[c].st = "open"
        /\ SinglePageview(conns[c].originId)
        /\ reqs[r].originId = conns[c].originId
        /\ reqs[r].pc = "done" /\ reqs[r].published = 1
        /\ Len(conns[c].frames) = 2
        /\ conns[c].frames[1] = ConnectedFrame(conns[c].originId)
        /\ IsMetricsFrame(conns[c].frames[2])
        /\ conns[c].frames[2].metrics[1].pageviews = Fin(1)

\* C5: the 202 response is sent after the event row is stored and before
\* the recompute reads the store or publishes: an answered request's row is
\* in the store, a request whose recompute has not yet run is already
\* answered 202 and holds no computed metrics, and every recompute that
\* reads or publishes belongs to a request answered 202.
C5_AckBeforeRecompute ==
    \A r \in Reqs :
        /\ reqs[r].status = 202 => HasRow(r)
        /\ reqs[r].pc = "recompute"
            => reqs[r].status = 202 /\ reqs[r].snapshot = <<>> /\ reqs[r].published = 0
        /\ (reqs[r].pc = "publish" \/ reqs[r].published > 0) => reqs[r].status = 202

C5_Witness ==
    \E r \in Reqs, c \in Conns :
        /\ reqs[r].pc = "recompute"
        /\ reqs[r].status = 202
        /\ HasRow(r)
        /\ conns[c].st = "open" /\ conns[c].originId = reqs[r].originId
        /\ conns[c].frames = <<ConnectedFrame(reqs[r].originId)>>

LastFrame(frames) == frames[Len(frames)]

\* C6: a broadcast writes exactly once to every connection registered for
\* the origin when it is called and to no other connection; the writes that
\* do not throw all append the same metrics frame; exactly the connections
\* whose write threw are removed from the origin's set, the writes after a
\* throwing one still happen, and the caller ends as it would have without
\* the failure, its response unchanged.
C6_BroadcastReachesAll ==
    [][\A r \in Reqs :
         (reqs[r].pc = "publish" /\ reqs'[r].pc # "publish")
         => LET o == reqs[r].originId
                before == sseClients[o].clients
                after == sseClients'[o].clients
            IN  /\ reqs'[r].pc = "done"
                /\ reqs'[r].status = reqs[r].status
                /\ after \subseteq before
                /\ \A c \in before : conns'[c].writes = conns[c].writes + 1
                /\ \A c \in after :
                     /\ Len(conns'[c].frames) = Len(conns[c].frames) + 1
                     /\ SubSeq(conns'[c].frames, 1, Len(conns[c].frames)) = conns[c].frames
                     /\ IsMetricsFrame(LastFrame(conns'[c].frames))
                /\ \A c, d \in after :
                     LastFrame(conns'[c].frames) = LastFrame(conns'[d].frames)
                /\ \A c \in before \ after : conns'[c].frames = conns[c].frames
                /\ \A c \in Conns \ before : conns'[c] = conns[c]
                /\ \A p \in OriginIds \ {o} : sseClients'[p] = sseClients[p]
                /\ sseClients'[o].has = sseClients[o].has]_vars

C6_Witness ==
    \E c, d \in Conns, r \in Reqs :
        /\ c < d
        /\ conns[c].st = "open" /\ conns[d].st = "open"
        /\ conns[c].originId = conns[d].originId
        /\ reqs[r].pc = "done" /\ reqs[r].published = 1
        /\ reqs[r].originId = conns[c].originId
        /\ ~Registered(c)
        /\ conns[c].writes = 2 /\ Len(conns[c].frames) = 1
        /\ Registered(d)
        /\ conns[d].writes = 2 /\ Len(conns[d].frames) = 2
        /\ IsMetricsFrame(conns[d].frames[2])

\* C7: a request answered 202 called setImmediate exactly once and its
\* recompute publishes at most once, after which it is over; a rejected
\* request (400, 401, 500) scheduled and published nothing; so no
\* connection holds more metrics frames than its origin has accepted events.
C7_OneCyclePerAccepted ==
    /\ \A r \in Reqs :
        /\ reqs[r].status = 202
            => /\ reqs[r].scheduled = 1
               /\ reqs[r].published <= 1
               /\ reqs[r].published = 1 => reqs[r].pc = "done"
        /\ reqs[r].status \in {400, 401, 500}
            => /\ reqs[r].scheduled = 0
               /\ reqs[r].published = 0
               /\ reqs[r].pc = "done"
        /\ reqs[r].pc # "new" => reqs[r].status \in {202, 400, 401, 500}
    /\ \A c \in Conns :
        conns[c].st = "open"
            => Len(MetricsFrames(c)) <= Len(RowsOf(conns[c].originId))

C7_Witness ==
    \E r, q \in Reqs, c \in Conns :
        /\ reqs[r].status = 202 /\ reqs[r].pc = "done" /\ reqs[r].published = 1
        /\ reqs[q].status = 401 /\ reqs[q].scheduled = 0
        /\ r < q
        /\ conns[c].st = "open"
        /\ Len(MetricsFrames(c)) = 1
        /\ Len(RowsOf(conns[c].originId)) = 1

\* C8: no step of a recompute, whether its store read throws or a
\* subscriber write throws, changes what its request was answered with
\* (202) or removes the request's event row from the store.
C8_FailureKeepsOutcome ==
    [][\A r \in Reqs :
         reqs[r].pc \in {"recompute", "publish"}
             => /\ reqs[r].status = 202
                /\ reqs'[r].status = 202
                /\ HasRow(r)
                /\ HasRow(r)']_vars

C8_Witness ==
    \E r, q \in Reqs, c \in Conns :
        /\ reqs[r].pc = "done" /\ reqs[r].status = 202
        /\ reqs[r].published = 0 /\ HasRow(r)
        /\ reqs[q].pc = "done" /\ reqs[q].status = 202
        /\ reqs[q].published = 1 /\ HasRow(q)
        /\ conns[c].st = "open" /\ conns[c].originId = reqs[q].originId
        /\ conns[c].writes = 2 /\ Len(conns[c].frames) = 1
        /\ ~Registered(c)

\* C9: a connection that has not subscribed is in no set and has received
\* nothing; a subscribed connection has received the connection notice of
\* its origin as its first frame and only metrics frames after it; and a
\* subscribed connection none of whose writes threw is registered in the
\* set of its origin.
C9_NoticeFirst ==
    \A c \in Conns :
        /\ conns[c].st = "new"
            => conns[c].frames = <<>> /\ conns[c].writes = 0 /\ ~Registered(c)
        /\ conns[c].st = "open"
            => /\ Len(conns[c].frames) >= 1
               /\ conns[c].frames[1] = ConnectedFrame(conns[c].originId)
               /\ \A i \in 2..Len(conns[c].frames) : IsMetricsFrame(conns[c].frames[i])
        /\ (conns[c].st = "open" /\ conns[c].writes = Len(conns[c].frames))
            => c \in sseClients[conns[c].originId].clients

C9_Witness ==
    \E c \in Conns :
        /\ conns[c].st = "open"
        /\ Len(conns[c].frames) = 3
        /\ conns[c].frames[1] = ConnectedFrame(conns[c].originId)
        /\ IsMetricsFrame(conns[c].frames[2])
        /\ c \in sseClients[conns[c].originId].clients

C10_ClosedIsGone ==
    \A c \in Conns :
        conns[c].st = "closed"
            => ~Registered(c) /\ conns[c].writes = 0 /\ conns[c].frames = <<>>

\* C10: the step in which a connection's transport closes removes it from
\* the set of its origin, deletes the origin's map entry if that leaves the
\* set empty and keeps the other members otherwise, and touches no other
\* origin's entry; a closed connection is in no set and nothing is written
\* to it after the close.
C10_ClosePrunes ==
    /\ []C10_ClosedIsGone
    /\ [][\A c \in Conns :
            (conns[c].st = "open" /\ conns'[c].st = "closed")
            => LET o == conns[c].originId
                   left == sseClients[o].clients \ {c}
               IN  /\ sseClients'[o].clients = left
                   /\ (left = {} => ~sseClients'[o].has)
                   /\ (left # {} => sseClients'[o].has)
                   /\ \A p \in OriginIds \ {o} : sseClients'[p] = sseClients[p]]_vars

C10_Witness ==
    /\ \A c \in Conns : conns[c].st = "closed"
    /\ \A o \in OriginIds : sseClients[o] = NoEntry
    /\ \E r \in Reqs : reqs[r].pc = "done" /\ reqs[r].published = 1

\* C13: a request whose body is malformed (originToken, page or timestamp
\* missing, timestamp no ISO-8601 date-time, eventType outside the four,
\* value not a number) is answered 400, stores no event row, schedules no
\* recompute and publishes nothing.
C13_MalformedRejected ==
    \A r \in Reqs :
        reqs[r].malformed
            => /\ reqs[r].status = 400
               /\ reqs[r].pc = "done"
               /\ ~HasRow(r)
               /\ reqs[r].scheduled = 0
               /\ reqs[r].published = 0

C13_Witness ==
    \E r \in Reqs, c \in Conns :
        /\ reqs[r].malformed
        /\ reqs[r].status = 400
        /\ r > 1
        /\ encryptedEvents # <<>>
        /\ conns[c].st = "open" /\ Registered(c)
        /\ conns[c].originId = "A"

\* the token is that of an origin without an active key
TokenOfKeylessOrigin(token) ==
    \E o \in origins :
        /\ o.token = token
        /\ ~\E k \in fheKeys : k.originId = o.id /\ k.isActive = "true"

\* C14: a request whose token was looked up and resolves to an origin
\* without an active key, the key lookup returning, is answered 500, stores
\* no event row, schedules no recompute and publishes nothing.
C14_NoKeyRejected ==
    \A r \in Reqs :
        (TokenOfKeylessOrigin(reqs[r].token) /\ reqs[r].why \notin {"schema", "store"})
            => /\ reqs[r].status = 500
               /\ reqs[r].pc = "done"
               /\ ~HasRow(r)
               /\ reqs[r].scheduled = 0
               /\ reqs[r].published = 0

C14_Witness ==
    \E r \in Reqs, c \in Conns :
        /\ TokenOfKeylessOrigin(reqs[r].token)
        /\ reqs[r].status = 500
        /\ conns[c].st = "open" /\ conns[c].originId = "B" /\ Registered(c)
        /\ conns[c].frames = <<ConnectedFrame("B")>>
        /\ encryptedEvents # <<>>

\* the sum of the decoded values of the events of one type
RECURSIVE TypeSum(_, _)
TypeSum(events, eventType) ==
    IF events = <<>> THEN 0
    ELSE (IF Head(events).eventType = eventType
          THEN DecryptValue(Head(events).cipherBlob).n ELSE 0)
         + TypeSum(Tail(events), eventType)

Ids(rows) == {rows[i].id : i \in 1..Len(rows)}

\* the window is the rows of originId as they were after the insert of some
\* request q, r's own or a later one
WindowAsOf(window, originId, r) ==
    \E q \in Reqs :
        /\ q >= r /\ HasRow(q)
        /\ Ids(window) = {x \in Ids(RowsOf(originId)) : x <= q}

\* C23: the snapshot a recompute publishes is computed from the window it
\* read at its await, a state of the store at or after its own insert, and
\* not from the store as it is when the publish runs: every metrics frame
\* written by the publish of request r carries the totals of that window.
\* Nothing orders the publishes of two requests by their reads (witness: a
\* subscriber holds the snapshot of two events and, after it, the snapshot
\* of one).
C23_PublishesWindowRead ==
    /\ [](\A r \in Reqs : reqs[r].pc = "publish"
            => WindowAsOf(reqs[r].snapshot, reqs[r].originId, r))
    /\ [][\A r \in Reqs :
            (reqs[r].pc = "publish" /\ reqs'[r].pc = "done")
            => \A c \in Conns :
                 conns'[c].frames # conns[c].frames
                 => LET m == LastFrame(conns'[c].frames).metrics[1]
                        w == reqs[r].snapshot
                    IN  /\ conns'[c].frames = Append(conns[c].frames, MetricsFrame(m))
                        /\ m.pageviews = Fin(TypeSum(w, "pageview"))
                        /\ m.sessions = Fin(TypeSum(w, "session"))
                        /\ m.conversions = Fin(TypeSum(w, "conversion"))]_vars

C23_Witness ==
    \E c \in Conns :
        /\ conns[c].st = "open" /\ conns[c].originId = "A"
        /\ Len(RowsOf("A")) = 2
        /\ \A i \in 1..2 : RowsOf("A")[i].eventType = "pageview"
        /\ \A r \in Reqs : reqs[r].pc = "done" /\ reqs[r].published = 1
        /\ Len(conns[c].frames) = 3
        /\ conns[c].frames[2].metrics[1].pageviews = Fin(2)
        /\ conns[c].frames[3].metrics[1].pageviews = Fin(1)

\* the connections whose write threw in the step: written to, no frame added
WriteThrew(c) == conns'[c].writes = conns[c].writes + 1 /\ conns'[c].frames = conns[c].frames

\* C24: in a publish the subscriber set stays as it was before the pass
\* through every callback of the pass, whether or not writes throw; the
\* connections whose write threw are removed once the pass is over.
C24_NoMutationDuringPass ==
    [][\A r \in Reqs :
         (reqs[r].pc = "publish" /\ reqs'[r].pc = "done")
         => LET o == reqs[r].originId
                before == sseClients[o].clients
                failing == {c \in before : WriteThrew(c)}
                sets == ForEachSets(before, before, failing)
            IN  /\ \A i \in 1..Len(sets) : sets[i] = before
                /\ sseClients'[o].clients = before \ failing]_vars

\* the step leaves the subscriber set of every origin but o, and every
\* connection that subscribed to another origin than o, as they were
OthersUntouched(o) ==
    /\ \A p \in OriginIds \ {o} : sseClients'[p] = sseClients[p]
    /\ \A c \in Conns : conns[c].originId \notin {o, "none"} => conns'[c] = conns[c]

\* C27: a publish for an origin writes no frame to, and removes from its
\* set, no connection of another origin; a subscribe, a close and the
\* pruning of failed writes change the subscriber set of their own origin
\* only.
C27_OriginsIndependent ==
    [][/\ \A r \in Reqs :
            (reqs[r].pc = "publish" /\ reqs'[r].pc = "done")
                => OthersUntouched(reqs[r].originId)
       /\ \A c \in Conns :
            (conns[c].st = "new" /\ conns'[c].st = "open")
                => /\ OthersUntouched(conns'[c].originId)
                   /\ \A d \in Conns \ {c} : conns'[d] = conns[d]
       /\ \A c \in Conns :
            (conns[c].st = "open" /\ conns'[c].st = "closed")
                => /\ OthersUntouched(conns[c].originId)
                   /\ \A d \in Conns \ {c} : conns'[d] = conns[d]]_vars

C27_Witness ==
    \E c, d \in Conns, r \in Reqs :
        /\ reqs[r].originId = "A" /\ reqs[r].pc = "done" /\ reqs[r].published = 1
        /\ conns[c].st = "open" /\ conns[c].originId = "A"
        /\ conns[c].writes = 2 /\ Len(conns[c].frames) = 1
        /\ c \notin sseClients["A"].clients
        /\ conns[d].st = "open" /\ conns[d].originId = "B"
        /\ conns[d].frames = <<ConnectedFrame("B")>> /\ conns[d].writes = 1
        /\ sseClients["B"] = [has |-> TRUE, clients |-> {d}]

\* C31: the subscriber map never holds an origin id with an empty set of
\* connections: an origin key is present only while at least one
\* connection is registered under it.
C31_NoEmptySubscriberSet ==
    \A o \in OriginIds : sseClients[o].has => sseClients[o].clients # {}

\* the requests accepted for origin o, and the burst being over: every
\* request is answered and every accepted one has published its snapshot
AcceptedFor(o) == {r \in Reqs : reqs[r].status = 202 /\ reqs[r].originId = o}
BurstOver(o) ==
    /\ \A r \in Reqs : reqs[r].pc = "done"
    /\ \A r \in AcceptedFor(o) : reqs[r].published = 1
    /\ Cardinality(AcceptedFor(o)) >= 2

\* connection c was registered under o during every publish of the burst:
\* it is open and holds one metrics frame for each of them
Continuous(c, o) ==
    /\ conns[c].st = "open" /\ conns[c].originId = o
    /\ c \in sseClients[o].clients
    /\ Len(conns[c].frames) = 1 + Cardinality(AcceptedFor(o))

\* frame metrics m carry the totals of the rows of o with id at most q
TotalsAsOf(m, o, q) ==
    LET w == SelectSeq(RowsOf(o), LAMBDA e : e.id <= q)
    IN  /\ m.pageviews = Fin(TypeSum(w, "pageview"))
        /\ m.sessions = Fin(TypeSum(w, "session"))
        /\ m.conversions = Fin(TypeSum(w, "conversion"))

\* C32 as stated: once a burst of collects for an origin is over, the last
\* metrics frame of a subscriber connected throughout carries the totals of
\* every accepted event of the origin.
C32_LastFrameReflectsAll ==
    \A o \in OriginIds, c \in Conns :
        (BurstOver(o) /\ Continuous(c, o))
            => TotalsAsOf(LastFrame(conns[c].frames).metrics[1], o, MaxReqs)

\* C32 amended: once a burst of collects for an origin is over, the last
\* metrics frame of a subscriber connected throughout carries the totals of
\* the origin's events up to one of the accepted events, which need not be
\* the last: the cycles publish in no fixed order, and a cycle that read
\* the store earlier may publish later.
C32_LastFrameReflectsPrefix ==
    \A o \in OriginIds, c \in Conns :
        (BurstOver(o) /\ Continuous(c, o))
            => \E q \in AcceptedFor(o) :
                  TotalsAsOf(LastFrame(conns[c].frames).metrics[1], o, q)

C32_Witness ==
    \E c \in Conns :
        /\ BurstOver("A") /\ Continuous(c, "A")
        /\ Len(RowsOf("A")) = 2
        /\ TotalsAsOf(conns[c].frames[2].metrics[1], "A", 2)
        /\ TotalsAsOf(conns[c].frames[3].metrics[1], "A", 1)
        /\ ~TotalsAsOf(conns[c].frames[3].metrics[1], "A", 2)

\* the row request r stored is in the window r's recompute read
OwnRowRead(r) == \E i \in 1..Len(reqs[r].snapshot) : reqs[r].snapshot[i].id = r

\* the total of the type of r's event in metrics m
TotalOfType(m, eventType) ==
    CASE eventType = "pageview" -> m.pageviews
      [] eventType = "session" -> m.sessions
      [] eventType = "conversion" -> m.conversions
      [] OTHER -> Fin(0)

\* C33: the window a request's recompute publishes from was read after the
\* request's own event was stored and holds that event, so that every
\* metrics frame the request's publish writes counts it: the total of the
\* event's type is that of the other events of the window plus its value.
C33_SnapshotCountsOwnEvent ==
    /\ [](\A r \in Reqs : reqs[r].pc = "publish" => OwnRowRead(r))
    /\ [][\A r \in Reqs :
            (reqs[r].pc = "publish" /\ reqs'[r].pc = "done")
            => \A c \in Conns :
                 conns'[c].frames # conns[c].frames
                 => LET m == LastFrame(conns'[c].frames).metrics[1]
                        own == CHOOSE e \in {reqs[r].snapshot[i] : i \in 1..Len(reqs[r].snapshot)} :
                                  e.id = r
                        others == SelectSeq(reqs[r].snapshot, LAMBDA e : e.id # r)
                    IN  TotalOfType(m, own.eventType) =
                            Fin(TypeSum(others, own.eventType)
                                + DecryptValue(own.cipherBlob).n)]_vars

C33_Witness ==
    \E r \in Reqs, c \in Conns :
        /\ r = 2 /\ reqs[r].pc = "done" /\ reqs[r].published = 1
        /\ reqs[r].value = Fin(2) /\ reqs[1].value = Fin(2)
        /\ reqs[1].originId = reqs[r].originId /\ reqs[1].pc = "recompute"
        /\ conns[c].originId = reqs[r].originId
        /\ Len(conns[c].frames) = 2
        /\ LastFrame(conns[c].frames).metrics[1].sessions = Fin(4)

-----------------------------------------------------------------------------
(* Claims about the agent and the endpoint together, under PipelineSpec.   *)

\* the stored rows that came from tracked event e
RowsFrom(e) ==
    {i \in 1..Len(encryptedEvents) : encryptedEvents[i].timestamp = AgentBody(e).timestamp.n}

\* C37 as stated: no tracked event yields two stored rows, whatever
\* happens to its attempts.
C37_AtMostOneRow ==
    \A e \in DOMAIN delivery : Cardinality(RowsFrom(e)) <= 1

\* C37 amended: a tracked event yields at most one stored row per attempt
\* of sendEvent made for it, hence at most retryAttempts rows; an event
\* that is neither queued nor sent has none, and an event whose chain
\* ended in success has at least one.
C37_AtMostOneRowPerAttempt ==
    /\ \A e \in DOMAIN delivery :
         /\ Cardinality(RowsFrom(e)) <= delivery[e].attempt
         /\ delivery[e].attempt <= retryAttempts
         /\ delivery[e].st = "inflight" => Cardinality(RowsFrom(e)) < delivery[e].attempt
         /\ delivery[e].st = "success" => Cardinality(RowsFrom(e)) >= 1
    /\ \A e \in (1..MaxSent) \ DOMAIN delivery : RowsFrom(e) = {}

C37_Witness ==
    /\ DOMAIN delivery = 1..2
    /\ delivery[1].st = "success" /\ delivery[1].attempt = 2
    /\ Cardinality(RowsFrom(1)) = 2
    /\ delivery[2].st = "success" /\ delivery[2].attempt = 1
    /\ Cardinality(RowsFrom(2)) = 1

-----------------------------------------------------------------------------
(* Claims about the two collect handlers, checked under ContractSpec.      *)

\* the row the Express handler stored for request r
StoredBy(r) ==
    encryptedEvents[CHOOSE i \in 1..Len(encryptedEvents) : encryptedEvents[i].id = r]

\* C35: given the same request over the same tables, and no store call
\* failing, the Express route and the serverless handler answer with a
\* status of the same class, and when they accept they store an event of
\* the same origin, page, eventType and decoded value.
C35_SameCollectContract ==
    \A r \in Reqs :
        (reqs[r].pc # "new" /\ reqs[r].why # "store" /\ ~admin[r].threw)
            => /\ reqs[r].status \div 100 = admin[r].status \div 100
               /\ reqs[r].status = 202
                    => LET mine == StoredBy(r)
                           theirs == admin[r].row[1]
                       IN  /\ mine.originId = theirs.originId
                           /\ mine.page = theirs.page
                           /\ mine.eventType = theirs.eventType
                           /\ DecryptValue(mine.cipherBlob) = DecryptValue(theirs.cipherBlob)

\* C36: the blob stored for an accepted event posted with a number v as
\* its value, 0 included, decodes to v, and the blob of an event posted
\* without a value decodes to 1.
C36_StoredValueIsPosted ==
    \A r \in Reqs :
        reqs[r].status = 202
            => LET stored == DecryptValue(StoredBy(r).cipherBlob)
               IN  /\ IsFinite(reqs[r].value) => stored = reqs[r].value
                   /\ reqs[r].value = Undef => stored = Fin(1)

-----------------------------------------------------------------------------
(* Claims about the read endpoints, checked under QuerySpec.               *)

MetricsAnswered == queryPc = "done" /\ queryRes.op = "metrics" /\ queryRes.status = 200
AllZero(m) ==
    /\ m.visitors = Fin(0) /\ m.pageviews = Fin(0) /\ m.sessions = Fin(0)
    /\ m.avgSession = Fin(0) /\ m.bounceRate = Fin(0) /\ m.conversions = Fin(0)

\* C15: a metrics request for an origin that has no event rows, its store
\* read returning, is answered 200 with visitors, pageviews, sessions,
\* avgSession, bounceRate and conversions all 0.
C15_ZeroEventsAllZero ==
    (queryPc = "done" /\ queryRes.op = "metrics" /\ ~queryRes.threw
        /\ RowsOf(queryRes.originId) = <<>>)
        => queryRes.status = 200 /\ AllZero(queryRes.metrics[1])

C15_Witness ==
    /\ MetricsAnswered
    /\ RowsOf(queryRes.originId) = <<>>
    /\ Len(encryptedEvents) = 3
    /\ AllZero(queryRes.metrics[1])
    /\ queryRes.topPages = <<>>

\* C16: in every answered metrics request avgSession and bounceRate are
\* finite numbers, both are 0 when sessions is 0, and bounceRate is 0 when
\* pageviews is 0.
C16_NoDivisionError ==
    MetricsAnswered
        => LET m == queryRes.metrics[1]
           IN  /\ IsFinite(m.avgSession)
               /\ IsFinite(m.bounceRate)
               /\ m.sessions = Fin(0) => (m.avgSession = Fin(0) /\ m.bounceRate = Fin(0))
               /\ m.pageviews = Fin(0) => m.bounceRate = Fin(0)

\* the number of rows of originId on page
PageCount(originId, page) ==
    Cardinality({i \in 1..Len(encryptedEvents) :
                    encryptedEvents[i].originId = originId
                    /\ encryptedEvents[i].page = page})

\* C17: in every answered metrics request topPages lists at most 5 distinct
\* pages, each with views equal to the number of the origin's events on
\* that page, in order of non-increasing views, and no page left out has
\* more events than a listed one.
C17_TopPages ==
    MetricsAnswered
        => LET top == queryRes.topPages
               o == queryRes.originId
               listed == {top[i].page : i \in 1..Len(top)}
               pages == {encryptedEvents[i].page : i \in
                            {j \in 1..Len(encryptedEvents) : encryptedEvents[j].originId = o}}
           IN  /\ Len(top) <= 5
               /\ Cardinality(listed) = Len(top)
               /\ listed \subseteq pages
               /\ (Len(top) < 5 => listed = pages)
               /\ \A i \in 1..Len(top) : top[i].views = Fin(PageCount(o, top[i].page))
               /\ \A i, j \in 1..Len(top) :
                    i < j => PageCount(o, top[i].page) >= PageCount(o, top[j].page)
               /\ \A q \in pages \ listed : \A i \in 1..Len(top) :
                    PageCount(o, q) <= PageCount(o, top[i].page)


EventsAnswered == queryPc = "done" /\ queryRes.op = "events"

\* the response holds the newest rows of the origin, newest first, as many
\* as there are up to the limit asked for, or up to bound when none was
RecentWindow(bound) ==
    LET o      == queryRes.originId
        got    == queryRes.events
        all    == RowsOf(o)
        cap    == IF queryRes.limitGiven THEN queryRes.limit ELSE bound
        gotIds == {got[i].id : i \in 1..Len(got)}
    IN  /\ \A i \in 1..Len(got) :
             got[i].originId = o /\ \E j \in 1..Len(all) : all[j] = got[i]
        /\ Cardinality(gotIds) = Len(got)
        /\ Len(got) = (IF Len(all) <= cap THEN Len(all) ELSE cap)
        /\ \A i, j \in 1..Len(got) : i < j => got[i].timestamp >= got[j].timestamp
        /\ \A j \in 1..Len(all) : all[j].id \notin gotIds =>
             \A i \in 1..Len(got) : all[j].timestamp <= got[i].timestamp

\* C18 as stated: getEventsByOrigin returns only rows of the origin, the
\* ones with the latest timestamps, newest first, at most limit of them, and
\* at most 1000 when no limit is given.
C18_RecentWindowDefault1000 == EventsAnswered => RecentWindow(1000)

\* C18, amended: the same, with at most 100 rows when no limit is given.
C18_RecentWindowDefault100 == EventsAnswered => RecentWindow(DefaultLimit)

C18_Witness ==
    /\ EventsAnswered
    /\ ~queryRes.limitGiven
    /\ Len(RowsOf(queryRes.originId)) = DefaultLimit + 1
    /\ Len(queryRes.events) = DefaultLimit
    /\ queryRes.events[1].timestamp = DefaultLimit + 1
    /\ queryRes.events[DefaultLimit].timestamp = 2

\* the sum of the decoded values of events[lo..hi] of one type
RECURSIVE WindowSum(_, _, _, _)
WindowSum(events, eventType, lo, hi) ==
    IF lo > hi THEN 0
    ELSE IF lo = hi
    THEN (IF events[lo].eventType = eventType
          THEN DecryptValue(events[lo].cipherBlob).n ELSE 0)
    ELSE LET mid == (lo + hi) \div 2
         IN  WindowSum(events, eventType, lo, mid) + WindowSum(events, eventType, mid + 1, hi)

\* the greatest integer q with q * y <= x, for x >= 0 and y > 0
GreatestBelow(x, y) == CHOOSE q \in 0..x : q * y <= x /\ x < (q + 1) * y

Computed == queryPc = "done" /\ queryRes.op \in {"metrics", "snapshot"} /\ ~queryRes.threw

SameFields(m, n) ==
    /\ m.visitors = n.visitors
    /\ m.pageviews = n.pageviews
    /\ m.sessions = n.sessions
    /\ m.avgSession = n.avgSession
    /\ m.conversions = n.conversions

\* C34: over one state of the store, the snapshot the recompute step hands
\* to the broadcast and the metrics of the GET response agree on visitors,
\* pageviews, sessions, avgSession and conversions: whichever of the two
\* ran, the other gives the same five values for that table, in whatever
\* order the table hands out its rows.
C34_SnapshotEqualsMetrics ==
    Computed
        => \A rows \in Physical(encryptedEvents) :
              LET w == GetEventsByOrigin(rows, queryRes.originId, WindowLimit)
                  other == IF queryRes.op = "snapshot"
                           THEN ComputeMetrics(w, Now)
                           ELSE ComputeSnapshot(w, Now)
              IN  SameFields(queryRes.metrics[1], other)

C34_Witness ==
    /\ Computed
    /\ queryRes.op = "snapshot"
    /\ queryRes.metrics[1].pageviews = Fin(2)
    /\ queryRes.metrics[1].sessions = Fin(1)
    /\ queryRes.metrics[1].avgSession = Fin(2)
    /\ queryRes.metrics[1].visitors = Fin(0)
    /\ SameFields(queryRes.metrics[1],
                  ComputeMetrics(GetEventsByOrigin(encryptedEvents, queryRes.originId,
                                                   WindowLimit), Now))

-----------------------------------------------------------------------------
(* Claims about origin administration, checked under AdminSpec.            *)

Deleted(c) == admin[c].op = "delete" /\ admin[c].pc = "done" /\ admin[c].status = 200
KeysOf(originId) == {k \in fheKeys : k.originId = originId}
RolesOf(originId) == {x \in roles : x.originId = originId}

\* the step in which call c, a delete, is answered 200 leaves the origins
\* other than its own, and their keys, roles and events, as they were
DeleteSparesOthers(c) ==
    (admin[c].pc = "deleteOrigin" /\ admin'[c].status = 200)
        => \A o \in AdminOriginIds \ {admin[c].id} :
             /\ {x \in origins' : x.id = o} = GetOriginById(o)
             /\ {k \in fheKeys' : k.originId = o} = KeysOf(o)
             /\ {x \in roles' : x.originId = o} = RolesOf(o)
             /\ SelectSeq(encryptedEvents', LAMBDA e : e.originId = o) = RowsOf(o)

\* C19: once DELETE /api/origins/:id has answered success, getOriginById(id)
\* finds no origin, getEventsByOrigin(id) is empty and no key or role of
\* that origin is stored; the delete leaves every other origin, and the
\* keys, roles and events of every other origin, unchanged.
C19_DeleteCascades ==
    /\ [](\A c \in Calls : Deleted(c) =>
            /\ GetOriginById(admin[c].id) = {}
            /\ GetEventsByOrigin(encryptedEvents, admin[c].id, DefaultLimit) = <<>>
            /\ KeysOf(admin[c].id) = {}
            /\ RolesOf(admin[c].id) = {})
    /\ [][\A c \in Calls : DeleteSparesOthers(c)]_vars

C19_Witness ==
    /\ \E c \in Calls : Deleted(c) /\ admin[c].id = "A"
    /\ \E c \in Calls : Deleted(c) /\ admin[c].id = NewId(1)
    /\ Len(encryptedEvents) = 1 /\ Len(RowsOf("B")) = 1
    /\ KeysOf("B") # {} /\ RolesOf("B") # {} /\ GetOriginById("B") # {}
    /\ Cardinality(origins) = 1

DemoAnswered(c) == admin[c].op = "demo" /\ admin[c].pc = "done"

\* C20: while no origin is deleted, at most one origin has the demo domain
\* and all the demo origin calls that were answered were answered 200 with
\* the same origin, hence the same id and token, however the calls
\* interleave at their store calls.
C20_DemoGetOrCreate ==
    (\A c \in Calls : admin[c].op # "delete")
        => /\ Cardinality({o \in origins : o.domain = demoOriginDomain}) <= 1
           /\ \A c \in Calls : DemoAnswered(c) => admin[c].status = 200
           /\ \A c, d \in Calls :
                (DemoAnswered(c) /\ DemoAnswered(d)) => admin[c].origin = admin[d].origin

\* no call is between two of its store calls
Quiescent == \A c \in Calls : admin[c].pc \in {"idle", "done"}

ActiveKeysOf(originId) == {k \in KeysOf(originId) : k.isActive = "true"}

\* C25: whenever no registration, demo or delete call is in the middle of
\* its store calls, every origin in the store has exactly one active key
\* and an owner role, also after a registration one of whose store calls
\* threw.
C25_OriginHasKeyAndRole ==
    Quiescent
        => \A o \in origins :
             /\ Cardinality(ActiveKeysOf(o.id)) = 1
             /\ \E x \in RolesOf(o.id) : x.role = "owner"

Collected(c) == admin[c].op = "collect" /\ admin[c].pc = "done"

\* C26: every stored event names an origin that is in the store.  A collect
\* whose origin is deleted after its token lookup stores nothing: it is
\* answered 500 (no key left) or 400 (the insert failed), and a collect
\* answered 202 stored its row for an origin that existed at its insert.
C26_NoOrphanEvent ==
    /\ [](\A i \in 1..Len(encryptedEvents) :
            GetOriginById(encryptedEvents[i].originId) # {})
    /\ [][\A c \in Calls :
            (admin[c].op = "collect" /\ admin[c].pc # "done" /\ admin'[c].pc = "done")
            => IF admin'[c].status = 202
               THEN /\ GetOriginById(admin[c].id) # {}
                    /\ Len(encryptedEvents') = Len(encryptedEvents) + 1
                    /\ encryptedEvents'[Len(encryptedEvents')].originId = admin[c].id
               ELSE /\ encryptedEvents' = encryptedEvents
                    /\ admin'[c].status \in {400, 500}
                    /\ GetOriginById(admin[c].id) = {}]_vars

C26_Witness ==
    \E c, d \in Calls :
        /\ Collected(c) /\ admin[c].id = "A" /\ admin[c].status = 400
        /\ Deleted(d) /\ admin[d].id = "A"
        /\ RowsOf("A") = <<>>
        /\ Len(encryptedEvents) = 1

-----------------------------------------------------------------------------
(* Claims about the proofs endpoint, checked under ProofSpec.              *)

\* C30: two answered proof requests to which the store returned the same
\* set of aggregate rows carry the same digest, whatever the order in which
\* the rows were returned.
C30_DigestOfRowSet ==
    \A i, j \in 1..Len(proofs) :
        (proofs[i].status = 200 /\ proofs[j].status = 200
            /\ proofs[i].seen = proofs[j].seen)
            => proofs[i].digest = proofs[j].digest

-----------------------------------------------------------------------------
(* Claims about ProofRegistry, checked under ChainSpec.                    *)

Mined == blockNumber' = blockNumber + 1
Anchored(k) == chainProofs[k] # ZeroProof

\* C38: a proof is written once.  A stored proof never changes in any of
\* its fields, and an anchorProof for a pair that holds a proof reverts;
\* a pair comes to hold a proof only by an anchorProof for it that did not
\* revert, which stores the digest and cid it was given under the current
\* block; and verifyProof returns exists = true exactly for the pairs that
\* hold a proof, with the stored digest and cid.
C38_ProofsWriteOnce ==
    /\ [](lastCall.fn = "verifyProof"
            => LET k == <<lastCall.originId, lastCall.day>>
                   out == lastCall.returned[1]
               IN  /\ out.exists <=> Anchored(k)
                   /\ out.digest = chainProofs[k].digest
                   /\ out.ipfsCid = chainProofs[k].ipfsCid)
    /\ [][\A k \in ProofKeys :
            /\ Anchored(k) => chainProofs'[k] = chainProofs[k]
            /\ (Anchored(k) /\ Mined /\ lastCall'.fn = "anchorProof"
                   /\ <<lastCall'.originId, lastCall'.day>> = k)
                 => lastCall'.reverted
            /\ (~Anchored(k) /\ chainProofs'[k] # chainProofs[k])
                 => /\ Mined /\ lastCall'.fn = "anchorProof" /\ ~lastCall'.reverted
                    /\ <<lastCall'.originId, lastCall'.day>> = k
                    /\ chainProofs'[k].timestamp = BlockTimestamp(blockNumber)
                    /\ chainProofs'[k].blockNumber = blockNumber
                    /\ chainProofs'[k].digest \in Digests]_vars

C38_Witness ==
    /\ lastCall.fn = "anchorProof" /\ lastCall.reverted
    /\ lastCall.sender = originOwners[lastCall.originId]
    /\ Anchored(<<lastCall.originId, lastCall.day>>)
    /\ chainProofs[<<lastCall.originId, lastCall.day>>].blockNumber < blockNumber - 1

\* C39: an anchorProof that does not revert names a registered origin and
\* was sent by that origin's owner, and the proof it stores records that
\* owner; an owner that is set is not the zero address and is never
\* changed, and a registerOrigin for an origin that has an owner reverts.
C39_OwnerOnlyOwnerFixed ==
    /\ [](\A o \in ChainOrigins, d \in ChainDays :
            Anchored(<<o, d>>) => chainProofs[<<o, d>>].origin = originOwners[o]
                                  /\ originOwners[o] # ZeroAddress)
    /\ [][/\ (Mined /\ lastCall'.fn = "anchorProof" /\ ~lastCall'.reverted)
             => /\ originOwners[lastCall'.originId] # ZeroAddress
                /\ lastCall'.sender = originOwners[lastCall'.originId]
          /\ \A o \in ChainOrigins :
               /\ originOwners[o] # ZeroAddress => originOwners'[o] = originOwners[o]
               /\ (originOwners[o] # ZeroAddress /\ Mined
                     /\ lastCall'.fn = "registerOrigin" /\ lastCall'.originId = o)
                    => lastCall'.reverted
               /\ originOwners'[o] # originOwners[o]
                    => /\ Mined /\ lastCall'.fn = "registerOrigin" /\ ~lastCall'.reverted
                       /\ lastCall'.originId = o]_vars

C39_Witness ==
    /\ lastCall.fn = "registerOrigin" /\ lastCall.reverted
    /\ originOwners[lastCall.originId] = "0xa"
    /\ lastCall.sender = "0xb"
    /\ \E d \in ChainDays : Anchored(<<lastCall.originId, d>>)

-----------------------------------------------------------------------------
(* Claims about the live-update effect of useMetrics, checked under        *)
(* HookSpec.                                                               *)

OpenSources == {s \in 1..Len(eventSources) : eventSources[s].open}

PendingTimeouts == {t \in 1..Len(timeouts) : timeouts[t].state = "pending"}

ReconnectsOf(t) == {s \in 1..Len(eventSources) : eventSources[s].by = t}

\* C40: the hook holds at most one open EventSource, and an open one belongs
\* to the live run of the effect; an error closes the EventSource it came
\* from and arms one timeout due 3000 ms later, which is pending only while
\* its run is mounted and its run has no open EventSource; a timeout that
\* fired made exactly one new EventSource, at its due time, and no other
\* timeout made any; after the cleanup of a run (unmount or a change of
\* originId) no EventSource of it is open and no timeout of it is pending,
\* so no reconnect fires for it.
C40_OneSourceNoLeak ==
    /\ Cardinality(OpenSources) <= 1
    /\ \A s \in OpenSources :
         /\ hook.mounted
         /\ eventSources[s].effect = hook.effect
         /\ effects[hook.effect].eventSource = s
    /\ \A e \in 1..Len(effects) :
         ~effects[e].isMounted =>
            /\ \A s \in OpenSources : eventSources[s].effect # e
            /\ \A t \in PendingTimeouts : timeouts[t].effect # e
    /\ \A e \in 1..Len(effects) : effects[e].isMounted <=> (hook.mounted /\ hook.effect = e)
    /\ \A t \in 1..Len(timeouts) :
         /\ timeouts[t].due = timeouts[t].armed + ReconnectDelay
         /\ ~eventSources[timeouts[t].after].open
         /\ eventSources[timeouts[t].after].effect = timeouts[t].effect
         /\ timeouts[t].state = "pending" =>
               /\ \A s \in OpenSources : eventSources[s].effect # timeouts[t].effect
               /\ \A u \in PendingTimeouts : u = t
         /\ Cardinality(ReconnectsOf(t)) = IF timeouts[t].state = "fired" THEN 1 ELSE 0
         /\ \A s \in ReconnectsOf(t) :
               /\ eventSources[s].at = timeouts[t].due
               /\ eventSources[s].effect = timeouts[t].effect

\* a run of the effect that reconnected after an error, met a second error,
\* and was cleaned up while the second timeout was pending
C40_Witness ==
    \E e \in 1..Len(effects), t, u \in 1..Len(timeouts) :
       /\ ~effects[e].isMounted
       /\ timeouts[t].effect = e /\ timeouts[t].state = "fired"
       /\ timeouts[u].effect = e /\ timeouts[u].state = "cleared"
       /\ timeouts[u].after \in ReconnectsOf(t)


=============================================================================
